---- MODULE Spec2Model ----
(***************************************************************************)
(* Model of the Minecraft audio project: the language-to-voice matcher and *)
(* selector (voice_selector.py) and the skip-existing generation pipeline  *)
(* (audio_generator.py, bucket_manager.py, main.py).                       *)
(*                                                                         *)
(* Python strings are modelled as sequences of tokens.  A token is either  *)
(* a separator ("-", "_", "/") or a run of letters of one case ("af",      *)
(* "ZA", "Neural2", ...).  str.lower, str.upper, str.replace, str.split,   *)
(* str.startswith, str.endswith and the `in` substring test are computed   *)
(* on these sequences.                                                     *)
(***************************************************************************)
EXTENDS Integers, Sequences, FiniteSets, TLC

(***************************************************************************)
(* Bounds of the model.                                                    *)
(***************************************************************************)
\* longest voice catalog (number of voice records)
MaxCatalog == 3
\* largest number of processed translation files in one matching run
MaxFiles == 2
\* largest number of entries of one translation file
MaxEntries == 2
\* largest run suffix of an archive directory that exists beforehand
MaxRuns == 2
\* largest number of tokens of a code handed to convert_language_code alone
MaxCodeLen == 3

(***************************************************************************)
(* String helpers (Python str methods on token sequences).                 *)
(***************************************************************************)
Range(s) == {s[i] : i \in 1..Len(s)}

LowerTok(t) ==
    CASE t = "AF" -> "af"
      [] t = "ZA" -> "za"
      [] t = "NA" -> "na"
      [] t = "EN" -> "en"
      [] t = "US" -> "us"
      [] t = "AFR" -> "afr"
      [] OTHER -> t

UpperTok(t) ==
    CASE t = "af" -> "AF"
      [] t = "za" -> "ZA"
      [] t = "na" -> "NA"
      [] t = "en" -> "EN"
      [] t = "us" -> "US"
      [] t = "afr" -> "AFR"
      [] OTHER -> t

\* str.lower()
Lower(s) == [i \in 1..Len(s) |-> LowerTok(s[i])]

\* str.upper()
Upper(s) == [i \in 1..Len(s) |-> UpperTok(s[i])]

\* str.replace(a, b) for one-token a and b
Replace(s, a, b) == [i \in 1..Len(s) |-> IF s[i] = a THEN b ELSE s[i]]

\* str.startswith(p)
StartsWith(s, p) == Len(p) <= Len(s) /\ SubSeq(s, 1, Len(p)) = p

\* str.endswith(p)
EndsWith(s, p) == Len(p) <= Len(s) /\ SubSeq(s, Len(s) - Len(p) + 1, Len(s)) = p

\* `sub in s` for strings
Contains(s, sub) ==
    \E i \in 1..(Len(s) - Len(sub) + 1) : SubSeq(s, i, i + Len(sub) - 1) = sub

\* str.split(sep) for a one-token separator: the sequence of parts
RECURSIVE Split(_, _)
Split(s, sep) ==
    IF \A i \in 1..Len(s) : s[i] # sep
    THEN <<s>>
    ELSE LET k == CHOOSE i \in 1..Len(s) :
                      s[i] = sep /\ \A j \in 1..(i - 1) : s[j] # sep
         IN  <<SubSeq(s, 1, k - 1)>> \o Split(SubSeq(s, k + 1, Len(s)), sep)

\* Python's None, and the truth value of a string or None
None == <<"<None>">>

Falsy(x) == x = None \/ x = <<>>

(***************************************************************************)
(* voice_selector.py: pure functions.                                      *)
(***************************************************************************)

\* a conversion that replaces the separator and leaves the case alone
convert_keeping_case(in_game_code) ==
    IF "_" \in Range(in_game_code)
    THEN LET parts == Split(in_game_code, "_")
         IN  IF Len(parts) = 2
             THEN parts[1] \o <<"-">> \o parts[2]
             ELSE in_game_code
    ELSE in_game_code

\* convert_language_code: ll_cc -> ll-CC when the code splits in two on "_"
convert_language_code(in_game_code) ==
    IF "_" \in Range(in_game_code)
    THEN LET parts == Split(in_game_code, "_")
         IN  IF Len(parts) = 2
             THEN Lower(parts[1]) \o <<"-">> \o Upper(parts[2])
             ELSE in_game_code
    ELSE in_game_code

\* the comparison form of a code: code.lower().replace('_', '-')
NormalizeCode(code) == Replace(Lower(code), "_", "-")

\* every language code of the catalog, in the order the nested loops
\* `for voice in google_voices: for lang_code in voice.language_codes` visit
RECURSIVE CatalogCodes(_)
CatalogCodes(google_voices) ==
    IF google_voices = <<>>
    THEN <<>>
    ELSE Head(google_voices).language_codes \o CatalogCodes(Tail(google_voices))

\* the first catalog code, in loop order, whose comparison form is `wanted`
FirstOriginalCode(google_voices, wanted) ==
    LET codes == CatalogCodes(google_voices)
        k == CHOOSE i \in 1..Len(codes) :
                 /\ NormalizeCode(codes[i]) = wanted
                 /\ \A j \in 1..(i - 1) : NormalizeCode(codes[j]) # wanted
    IN  codes[k]

\* the matcher returning the comparison form instead of the catalog's code
find_matching_normalized(in_game_code, iso_code, google_voices) ==
    LET google_lang_codes ==
            {NormalizeCode(c) : c \in Range(CatalogCodes(google_voices))}
        converted_code == NormalizeCode(convert_language_code(in_game_code))
        iso_lower == NormalizeCode(iso_code)
    IN  IF converted_code \in google_lang_codes
        THEN converted_code
        ELSE IF iso_lower \in google_lang_codes
             THEN iso_lower
             ELSE None

\* the matcher trying the ISO code before the in-game code
find_matching_iso_first(in_game_code, iso_code, google_voices) ==
    LET google_lang_codes ==
            {NormalizeCode(c) : c \in Range(CatalogCodes(google_voices))}
        converted_code == NormalizeCode(convert_language_code(in_game_code))
        iso_lower == NormalizeCode(iso_code)
    IN  IF iso_lower \in google_lang_codes
        THEN FirstOriginalCode(google_voices, iso_lower)
        ELSE IF converted_code \in google_lang_codes
             THEN FirstOriginalCode(google_voices, converted_code)
             ELSE None

\* find_matching_google_language
find_matching_google_language(in_game_code, iso_code, google_voices) ==
    LET google_lang_codes ==
            {NormalizeCode(c) : c \in Range(CatalogCodes(google_voices))}
        converted_code == NormalizeCode(convert_language_code(in_game_code))
        iso_lower == NormalizeCode(iso_code)
    IN  IF converted_code \in google_lang_codes
        THEN FirstOriginalCode(google_voices, converted_code)
        ELSE IF iso_lower \in google_lang_codes
             THEN FirstOriginalCode(google_voices, iso_lower)
             ELSE None

\* the quality markers looked for in a voice name
Chirp3HD == <<"Chirp3", "-", "HD">>

ChirpHD == <<"Chirp", "-", "HD">>

Neural2 == <<"Neural2">>

WaveNet == <<"WaveNet">>

\* get_voice_priority (lower is better)
get_voice_priority(voice) ==
    IF Contains(voice.name, Chirp3HD) THEN 1
    ELSE IF Contains(voice.name, ChirpHD) THEN 2
    ELSE IF Contains(voice.name, Neural2) THEN 3
    ELSE IF Contains(voice.name, WaveNet) THEN 4
    ELSE 5

\* an insertion that puts v in front of the elements with the same key
RECURSIVE InsertBeforeEqual(_, _)
InsertBeforeEqual(v, sorted) ==
    IF sorted = <<>>
    THEN <<v>>
    ELSE IF get_voice_priority(Head(sorted)) < get_voice_priority(v)
         THEN <<Head(sorted)>> \o InsertBeforeEqual(v, Tail(sorted))
         ELSE <<v>> \o sorted

\* one step of list.sort(key=get_voice_priority): v is placed behind every
\* element whose key is not larger (the sort is stable)
RECURSIVE InsertByPriority(_, _)
InsertByPriority(v, sorted) ==
    IF sorted = <<>>
    THEN <<v>>
    ELSE IF get_voice_priority(Head(sorted)) <= get_voice_priority(v)
         THEN <<Head(sorted)>> \o InsertByPriority(v, Tail(sorted))
         ELSE <<v>> \o sorted

\* the sort left out: the catalog order is kept
SortNothing(voices) == voices

\* list.sort(key=get_voice_priority)
RECURSIVE SortByPriority(_)
SortByPriority(voices) ==
    IF voices = <<>>
    THEN <<>>
    ELSE InsertByPriority(voices[Len(voices)],
                          SortByPriority(SubSeq(voices, 1, Len(voices) - 1)))

\* the voices offered for the language code up to case and separator
MatchingVoicesNormalized(language_code, google_voices) ==
    SelectSeq(google_voices,
              LAMBDA v : \E c \in Range(v.language_codes) :
                             NormalizeCode(c) = NormalizeCode(language_code))

\* the voices offered for exactly this language code
MatchingVoices(language_code, google_voices) ==
    SelectSeq(google_voices, LAMBDA v : language_code \in Range(v.language_codes))

\* the female voices among them
FemaleVoices(language_code, google_voices) ==
    SelectSeq(MatchingVoices(language_code, google_voices),
              LAMBDA v : v.ssml_gender = "FEMALE")

\* select_voices_for_language: a list with the single best (name, gender)
select_voices_for_language(language_code, google_voices) ==
    LET female_voices == FemaleVoices(language_code, google_voices)
    IN  IF female_voices = <<>>
        THEN <<>>
        ELSE <<[name |-> SortByPriority(female_voices)[1].name, gender |-> "female"]>>

\* voice_analysis_report.select_new_voice_for_language: the best voice's name
select_new_voice_for_language(language_code, available_voices) ==
    LET female_voices == FemaleVoices(language_code, available_voices)
    IN  IF female_voices = <<>>
        THEN None
        ELSE SortByPriority(female_voices)[1].name

\* the directory test counting only directories that hold files
check_nonempty_audio_directories(google_language_code, store) ==
    /\ ~store.listdir_fails
    /\ \E item \in store.local :
           /\ item.is_dir
           /\ item.files > 0
           /\ StartsWith(item.name, google_language_code \o <<"-">>)
           /\ Contains(item.name, <<"-", "female", "-">>)

\* check_existing_audio_directories: only the entries of the local working
\* directory are listed (store.local, a set of [name, is_dir, files]); an
\* exception of os.listdir is caught and answered False
check_existing_audio_directories(google_language_code, store) ==
    /\ ~store.listdir_fails
    /\ \E item \in store.local :
           /\ item.is_dir
           /\ StartsWith(item.name, google_language_code \o <<"-">>)
           /\ Contains(item.name, <<"-", "female", "-">>)

\* str.strip(): leading and trailing whitespace tokens removed
RECURSIVE LStrip(_)
LStrip(s) == IF s # <<>> /\ Head(s) = " " THEN LStrip(Tail(s)) ELSE s

RECURSIVE RStrip(_)
RStrip(s) ==
    IF s # <<>> /\ s[Len(s)] = " " THEN RStrip(SubSeq(s, 1, Len(s) - 1)) ELSE s

Strip(s) == RStrip(LStrip(s))

\* the placeholder glyph of the reference table for "no value" (an en dash)
NoValueGlyph == <<"en-dash">>

\* dict lookup with default: mapping.get(key, default)
DictGet(mapping, key, default) ==
    IF key \in DOMAIN mapping THEN mapping[key] ELSE default

\* the loop over the table rows of parse_minecraft_language_table: columns 4
\* and 5 (counted from 0) hold the in-game code and the ISO code; a later row
\* overwrites an earlier one with the same in-game code
RECURSIVE ParseRows(_)
ParseRows(rows) ==
    IF rows = <<>>
    THEN <<>>
    ELSE LET before == ParseRows(SubSeq(rows, 1, Len(rows) - 1))
             cells == rows[Len(rows)]
         IN  IF Len(cells) > 5
             THEN LET in_game_code == Strip(cells[5])
                      iso_code == Strip(cells[6])
                  IN  IF /\ in_game_code # <<>>
                         /\ iso_code # <<>>
                         /\ in_game_code # NoValueGlyph
                         /\ iso_code # NoValueGlyph
                      THEN (in_game_code :> iso_code) @@ before
                      ELSE before
             ELSE before

\* a parse that answers one row (af_za, afr) when the document has no row
\* container
parse_table_lenient(html) ==
    IF ~html.has_table \/ ~html.has_tbody
    THEN [failed |-> FALSE, mapping |-> [code \in {<<"af", "_", "za">>} |-> <<"afr">>]]
    ELSE [failed |-> FALSE, mapping |-> ParseRows(html.rows)]

\* parse_minecraft_language_table: None (failed) when the document has no
\* wikitable, or no tbody inside it (the AttributeError is caught as well)
parse_minecraft_language_table(html) ==
    IF ~html.has_table \/ ~html.has_tbody
    THEN [failed |-> TRUE, mapping |-> <<>>]
    ELSE [failed |-> FALSE, mapping |-> ParseRows(html.rows)]

(***************************************************************************)
(* Inputs of the matcher: the voice catalog, the reference table, the      *)
(* directory of processed translations and the working directory.          *)
(***************************************************************************)
Code_afZA == <<"af", "-", "ZA">>

Code_afza == <<"af", "-", "za">>

Code_enUS == <<"en", "-", "US">>

Code_afr == <<"afr">>

\* the catalog records the catalogs of the model are built from
VoicePool ==
    { [name |-> Code_afZA \o <<"-", "Neural2", "-", "A">>,
       language_codes |-> <<Code_afZA>>, ssml_gender |-> "FEMALE"],
      [name |-> Code_afZA \o <<"-", "Chirp3", "-", "HD", "-", "B">>,
       language_codes |-> <<Code_afZA>>, ssml_gender |-> "FEMALE"],
      [name |-> Code_afZA \o <<"-", "Chirp3", "-", "HD", "-", "D">>,
       language_codes |-> <<Code_afZA>>, ssml_gender |-> "MALE"],
      [name |-> Code_afza \o <<"-", "Standard", "-", "C">>,
       language_codes |-> <<Code_afza>>, ssml_gender |-> "FEMALE"],
      [name |-> Code_enUS \o <<"-", "Chirp", "-", "HD", "-", "E">>,
       language_codes |-> <<Code_enUS, Code_afZA>>, ssml_gender |-> "FEMALE"],
      [name |-> Code_afr \o <<"-", "WaveNet", "-", "F">>,
       language_codes |-> <<Code_afr>>, ssml_gender |-> "FEMALE"] }

\* sequences of at most n distinct elements of S
SeqsOfDistinct(S, n) ==
    UNION { {q \in [1..k -> S] : \A i, j \in 1..k : i # j => q[i] # q[j]} : k \in 0..n }

Catalogs == SeqsOfDistinct(VoicePool, MaxCatalog)

InGame_af_za == <<"af", "_", "za">>

InGame_af_na == <<"af", "_", "na">>

InGame_en_us == <<"en", "_", "us">>

ProcessedSuffix == <<"_processed.json">>

\* the file names os.listdir(processed_translations_dir) may hold
ProcessedFilePool ==
    { InGame_af_za \o ProcessedSuffix,
      InGame_af_na \o ProcessedSuffix,
      InGame_en_us \o ProcessedSuffix }

DirectoryListings == SeqsOfDistinct(ProcessedFilePool, MaxFiles)

\* listings that also hold a file that is no processed translation
MixedListings ==
    { <<<<"notes.txt">>>>,
      <<<<"notes.txt">>, InGame_af_za \o ProcessedSuffix>>,
      <<InGame_af_za \o ProcessedSuffix, <<"notes.txt">>>> }

Cell(s) == <<" ">> \o s \o <<" ">>

\* the rows of the reference table: six cells each, but for one short row
\* and one row without an ISO code
TableRows ==
    << <<<<"1">>, <<"x">>, <<"Afrikaans">>, <<"Afrikaans">>, Cell(InGame_af_za), Cell(Code_afr)>>,
       <<<<"2">>, <<"x">>>>,
       <<<<"3">>, <<"x">>, <<"Afrikaans">>, <<"Afrikaans">>, InGame_af_na, Code_afr>>,
       <<<<"4">>, <<"x">>, <<"Pirate">>, <<"Pirate">>, <<"en", "_", "pt">>, NoValueGlyph>>,
       <<<<"5">>, <<"x">>, <<"English">>, <<"English">>, InGame_en_us, <<"eng">>>> >>

\* the reference documents: well formed, without wikitable, without tbody
GoodHtmlTable == [has_table |-> TRUE, has_tbody |-> TRUE, rows |-> TableRows]

BadHtmlTables ==
    { [has_table |-> FALSE, has_tbody |-> FALSE, rows |-> <<>>],
      [has_table |-> TRUE, has_tbody |-> FALSE, rows |-> <<>>] }

FemaleOGG == <<"-", "female", "-", "OGG">>

\* the states of the durable store the matcher may meet: the entries of the
\* local working directory ([name, is_dir, files]), the directory prefixes
\* of the bucket, and whether os.listdir(".") raises
NoAudioStore == [local |-> {}, bucket |-> {}, listdir_fails |-> FALSE]

StorageCases ==
    { NoAudioStore,
      [local |-> {[name |-> Code_afZA \o <<"-", "Neural2", "-", "A">> \o FemaleOGG,
                   is_dir |-> TRUE, files |-> 0]},
       bucket |-> {}, listdir_fails |-> FALSE],
      [local |-> {[name |-> Code_afZA \o <<"-", "Neural2", "-", "A">> \o FemaleOGG,
                   is_dir |-> TRUE, files |-> 1]},
       bucket |-> {}, listdir_fails |-> TRUE],
      [local |-> {[name |-> Code_afZA \o FemaleOGG, is_dir |-> TRUE, files |-> 1]},
       bucket |-> {}, listdir_fails |-> FALSE],
      [local |-> {[name |-> Code_afZA \o <<"-", "Chirp3", "-", "HD", "-", "D", "-", "male", "-", "OGG">>,
                   is_dir |-> TRUE, files |-> 1],
                  [name |-> Code_afZA \o <<"-", "x", "-", "female", "-", "notes">>,
                   is_dir |-> FALSE, files |-> 0]},
       bucket |-> {}, listdir_fails |-> FALSE],
      [local |-> {},
       bucket |-> {Code_afZA \o <<"-", "Neural2", "-", "A">> \o FemaleOGG},
       listdir_fails |-> FALSE],
      [local |-> {[name |-> Code_afr \o <<"-", "WaveNet", "-", "F">> \o FemaleOGG,
                   is_dir |-> TRUE, files |-> 1]},
       bucket |-> {}, listdir_fails |-> FALSE] }

(***************************************************************************)
(* State.                                                                  *)
(***************************************************************************)
VARIABLES
    \* match_languages_to_voices
    google_voices,           \* the loaded voice catalog
    html_table,              \* the reference document
    processed_dir,           \* os.listdir(processed_translations_dir)
    store,                   \* working directory and bucket, as the matcher sees them
    used_languages,          \* the used-languages set
    used_initial,            \* the set the caller passed in
    language_mapping,        \* in-game code -> ISO code
    translation_files,       \* the (file, in_game_code) pairs to process
    next_file,               \* position of the loop over translation_files
    language_voice_mapping,  \* the result, in insertion order
    match_trace,             \* the calls made, in order
    mpc,                     \* "start", "loop", "done" or "off"
    \* generate_audio_for_language and the storage it works on
    translation_data,        \* the (key, text) entries of the translation file
    voice_info,              \* the MatchResult of the language
    skip_existing,           \* the skip_existing argument
    bucket_manager,          \* whether a bucket manager is passed
    local_dirs,              \* directories of the working directory
    local_files,             \* paths of the files in them
    bucket_files,            \* paths of the objects of the bucket
    stats,                   \* the counters of the running call
    returned,                \* "nothing", "None" or "stats"
    entry,                   \* position of the loop over the entries
    wav_exists_in_bucket,    \* local of the loop body
    ogg_exists_in_bucket,    \* local of the loop body
    entry_calls,             \* collaborators called for the current entry
    check_lost,              \* an existence check of this call raised for an object that exists
    previous,                \* outcome of the call that ended right before
    gpc,                     \* "idle", "entry", "wav", "ogg", "returned" or "off"
    \* main
    startup,                 \* what the steps before the matching find
    translations,            \* in-game code -> entries of its processed file
    main_pc,                 \* "start", "match", "bucket", "loop", "generate", "done" or "off"
    exit_code,               \* -1 while main runs, then its return value
    language_index,          \* position of the loop over language_voice_mapping
    overall_stats,           \* the run totals
    processed_languages,     \* languages whose call returned counters
    failed_languages,        \* languages counted as failed
    language_stats,          \* what generate_audio_for_language returned, per language
    main_calls,              \* storage operations main has started
    \* archive_manager and get_minecraft_version
    arch_fn,                 \* the function called
    base_version,            \* its version argument
    run_number,              \* the counter of the probing loop
    arch_result,             \* the value returned
    translations_dir,        \* the files of the Translations directory
    ogg_dirs,                \* the ogg_dirs argument
    all_translation_keys,    \* the keys collected from the processed files
    ogg_index,               \* position of the loop over ogg_dirs
    apc                      \* "call", "probe", "keys", "oggs", "returned" or "off"

matchVars ==
    <<google_voices, html_table, processed_dir, store, used_languages, used_initial,
      language_mapping, translation_files, next_file, language_voice_mapping,
      match_trace, mpc>>

genVars ==
    <<translation_data, voice_info, skip_existing, bucket_manager, local_dirs,
      local_files, bucket_files, stats, returned, entry, wav_exists_in_bucket,
      ogg_exists_in_bucket, entry_calls, check_lost, previous, gpc>>

mainVars ==
    <<startup, translations, main_pc, exit_code, language_index, overall_stats,
      processed_languages, failed_languages, language_stats, main_calls>>

archVars ==
    <<arch_fn, base_version, run_number, arch_result, translations_dir, ogg_dirs,
      all_translation_keys, ogg_index, apc>>

restVars == <<mainVars, archVars>>

vars == <<matchVars, genVars, restVars>>

(***************************************************************************)
(* match_languages_to_voices.                                              *)
(***************************************************************************)
ZeroStats ==
    [wav_made |-> 0, wav_skipped |-> 0, ogg_made |-> 0, ogg_skipped |-> 0,
     wav_failed |-> 0, ogg_failed |-> 0, total_entries |-> 0]

NoPrevious == [complete |-> FALSE, clean |-> FALSE, local_files |-> {}]

ZeroTotals ==
    [total_wav_made |-> 0, total_wav_skipped |-> 0,
     total_ogg_made |-> 0, total_ogg_skipped |-> 0]

\* main is not running
MainOff ==
    /\ startup = "ok"
    /\ translations = <<>>
    /\ main_pc = "off"
    /\ exit_code = -1
    /\ language_index = 1
    /\ overall_stats = ZeroTotals
    /\ processed_languages = 0
    /\ failed_languages = 0
    /\ language_stats = <<>>
    /\ main_calls = {}

\* no function of the archive manager is running
ArchOff ==
    /\ arch_fn = "none"
    /\ base_version = <<>>
    /\ run_number = 1
    /\ arch_result = None
    /\ translations_dir = {}
    /\ ogg_dirs = <<>>
    /\ all_translation_keys = {}
    /\ ogg_index = 1
    /\ apc = "off"

RestOff == MainOff /\ ArchOff

\* the generation pipeline is not running
GenOff ==
    /\ translation_data = <<>>
    /\ voice_info = [in_game_code |-> <<>>, voices |-> <<>>]
    /\ skip_existing = TRUE
    /\ bucket_manager = FALSE
    /\ local_dirs = {}
    /\ local_files = {}
    /\ bucket_files = {}
    /\ stats = ZeroStats
    /\ returned = "nothing"
    /\ entry = 1
    /\ wav_exists_in_bucket = FALSE
    /\ ogg_exists_in_bucket = FALSE
    /\ entry_calls = {}
    /\ check_lost = FALSE
    /\ previous = NoPrevious
    /\ gpc = "off"

MatchInit ==
    /\ GenOff
    /\ RestOff
    /\ google_voices \in Catalogs
    /\ \/ /\ html_table = GoodHtmlTable
          /\ processed_dir \in DirectoryListings
          /\ store \in StorageCases
          /\ used_initial = {}
       \/ /\ html_table = GoodHtmlTable
          /\ processed_dir \in DirectoryListings
          /\ store = NoAudioStore
          /\ used_initial = {Code_afZA}
       \/ /\ html_table = GoodHtmlTable
          /\ processed_dir \in MixedListings
          /\ Len(google_voices) <= 1
          /\ store = NoAudioStore
          /\ used_initial = {}
       \/ /\ html_table \in BadHtmlTables
          /\ processed_dir \in DirectoryListings
          /\ Len(google_voices) <= 1
          /\ store = NoAudioStore
          /\ used_initial = {}
    /\ used_languages = used_initial
    /\ language_mapping = <<>>
    /\ translation_files = <<>>
    /\ next_file = 1
    /\ language_voice_mapping = <<>>
    /\ match_trace = <<>>
    /\ mpc = "start"

\* the files of the directory that end in _processed.json, with their
\* in-game code: file.replace('_processed.json', '')
TranslationFilesOf(listing) ==
    LET kept == SelectSeq(listing, LAMBDA file : EndsWith(file, ProcessedSuffix))
    IN  [i \in 1..Len(kept) |->
            [file |-> kept[i],
             in_game_code |-> SelectSeq(kept[i], LAMBDA t : t # ProcessedSuffix[1])]]

\* lines 195-219: load the catalog and the table, list the translations
MatchBegin ==
    /\ mpc = "start"
    /\ LET parsed == parse_minecraft_language_table(html_table)
       IN  IF google_voices = <<>>
           THEN /\ mpc' = "done"
                /\ UNCHANGED <<language_mapping, translation_files>>
           ELSE IF parsed.failed \/ DOMAIN parsed.mapping = {}
                THEN /\ mpc' = "done"
                     /\ UNCHANGED <<language_mapping, translation_files>>
                ELSE /\ language_mapping' = parsed.mapping
                     /\ translation_files' = TranslationFilesOf(processed_dir)
                     /\ mpc' = "loop"
    /\ UNCHANGED <<google_voices, html_table, processed_dir, store, used_languages,
                   used_initial, next_file, language_voice_mapping, match_trace>>
    /\ UNCHANGED genVars
    /\ UNCHANGED restVars

\* the membership test of line 235 left out
AlreadyUsedNever(google_lang_code, used) == FALSE

\* a test that takes every language as claimed once any language is claimed
AlreadyUsedAny(google_lang_code, used) == used # {}

\* a claim that counts only when an audio directory of the language exists
AlreadyUsedWithDirectory(google_lang_code, used) ==
    /\ google_lang_code \in used
    /\ check_existing_audio_directories(google_lang_code, store)

\* line 235: a language claimed earlier is skipped
AlreadyUsed(google_lang_code, used) == google_lang_code \in used

\* a language with existing audio directories dropped from the run
SkipsWhenAudioExists(voice_exists) == voice_exists

\* lines 239-245: the existence of audio directories is printed, and the
\* language is processed all the same
SkipsExistingAudio(voice_exists) == FALSE

\* an add that forgets the languages claimed before
ClaimOnly(used, google_lang_code) == {google_lang_code}

\* line 262: used_languages.add(google_lang_code)
ClaimLanguage(used, google_lang_code) == used \cup {google_lang_code}

\* lines 221-264: one iteration of the loop over the translation files
MatchStep ==
    /\ mpc = "loop"
    /\ next_file <= Len(translation_files)
    /\ LET filename == translation_files[next_file].file
           in_game_code == translation_files[next_file].in_game_code
           iso_code == DictGet(language_mapping, in_game_code, <<>>)
           google_lang_code ==
               find_matching_google_language(in_game_code, iso_code, google_voices)
           voice_exists == check_existing_audio_directories(google_lang_code, store)
           selected_voices == select_voices_for_language(google_lang_code, google_voices)
           found == [op |-> "find_matching", code |-> in_game_code,
                     iso |-> iso_code, result |-> google_lang_code]
           checked == [op |-> "check_existing", code |-> google_lang_code,
                       iso |-> iso_code, result |-> voice_exists]
           selected == [op |-> "select_voices", code |-> google_lang_code,
                        iso |-> iso_code, result |-> selected_voices]
       IN  IF Falsy(google_lang_code) \/ AlreadyUsed(google_lang_code, used_languages)
           THEN /\ match_trace' = Append(match_trace, found)
                /\ UNCHANGED <<used_languages, language_voice_mapping>>
           ELSE IF SkipsExistingAudio(voice_exists)
                THEN /\ match_trace' = match_trace \o <<found, checked>>
                     /\ UNCHANGED <<used_languages, language_voice_mapping>>
                ELSE IF selected_voices = <<>>
                     THEN /\ match_trace' = match_trace \o <<found, checked, selected>>
                          /\ UNCHANGED <<used_languages, language_voice_mapping>>
                     ELSE /\ match_trace' = match_trace \o <<found, checked, selected>>
                          /\ language_voice_mapping' =
                                 Append(language_voice_mapping,
                                        [file |-> filename,
                                         in_game_code |-> in_game_code,
                                         google_language_code |-> google_lang_code,
                                         iso_code |-> iso_code,
                                         voices |-> selected_voices])
                          /\ used_languages' = ClaimLanguage(used_languages, google_lang_code)
    /\ next_file' = next_file + 1
    /\ UNCHANGED <<google_voices, html_table, processed_dir, store, used_initial,
                   language_mapping, translation_files, mpc>>
    /\ UNCHANGED genVars
    /\ UNCHANGED restVars

\* line 266: the loop is over, the mapping is returned
MatchReturn ==
    /\ mpc = "loop"
    /\ next_file > Len(translation_files)
    /\ mpc' = "done"
    /\ UNCHANGED <<google_voices, html_table, processed_dir, store, used_languages,
                   used_initial, language_mapping, translation_files, next_file,
                   language_voice_mapping, match_trace>>
    /\ UNCHANGED genVars
    /\ UNCHANGED restVars

MatchNext == MatchBegin \/ MatchStep \/ MatchReturn

SpecMatch == MatchInit /\ [][MatchNext]_vars

(***************************************************************************)
(* The generation pipeline: generate_audio_for_language, the existence     *)
(* check and the upload of bucket_manager.py, as main calls them.          *)
(***************************************************************************)
\* the matcher is not running
MatchOff ==
    /\ google_voices = <<>>
    /\ html_table = GoodHtmlTable
    /\ processed_dir = <<>>
    /\ store = NoAudioStore
    /\ used_languages = {}
    /\ used_initial = {}
    /\ language_mapping = <<>>
    /\ translation_files = <<>>
    /\ next_file = 1
    /\ language_voice_mapping = <<>>
    /\ match_trace = <<>>
    /\ mpc = "off"

KeyNames == <<"item.a", "item.b", "item.c", "item.d">>

\* the texts of the entries: empty, whitespace only, text with a leading blank
Texts == {<<>>, <<" ", " ">>, <<" ", "hi">>}

\* the translation files: key -> text, at most MaxEntries entries
TranslationFiles ==
    UNION { { [i \in 1..n |-> [key |-> KeyNames[i], text |-> t[i]]] : t \in [1..n -> Texts] }
            : n \in 0..MaxEntries }

GenVoice == Code_afZA \o <<"-", "Neural2", "-", "A">>

VoiceInfos ==
    { [in_game_code |-> InGame_af_za, voices |-> <<[name |-> GenVoice, gender |-> "female"]>>],
      [in_game_code |-> InGame_af_za, voices |-> <<>>] }

\* create_audio_directories: the two directories of a voice
WavDirOf(voice_name) == voice_name \o <<"-", "female", "-", "WAV">>

OggDirOf(voice_name) == voice_name \o <<"-", "female", "-", "OGG">>

\* os.path.join(directory, filename)
PathJoin(directory, filename) == directory \o <<"/">> \o filename

WavFilename(key) == <<key, ".wav">>

OggFilename(key) == <<key, ".ogg">>

\* the object name check_file_exists_in_bucket asks for
CheckedBucketPath(voice_name, format_type, filename) ==
    <<"AudioProject-Female", "/">> \o voice_name
        \o <<"-", "female", "-", format_type, "/">> \o filename

\* an existence check that answers True when the call raises
check_file_exists_or_raised(bucket, voice_name, format_type, filename, raises) ==
    raises \/ CheckedBucketPath(voice_name, format_type, filename) \in bucket

\* check_file_exists_in_bucket: blob.exists(), False when the call raises
check_file_exists_in_bucket(bucket, voice_name, format_type, filename, raises) ==
    IF raises
    THEN FALSE
    ELSE CheckedBucketPath(voice_name, format_type, filename) \in bucket

\* an upload under a directory name without the gender
UploadWithoutGender(voice_name, format_type, filename) ==
    <<"AudioProject-Female", "/">> \o voice_name
        \o <<"-", format_type, "/">> \o filename

\* the object name transfer_generated_files_to_bucket uploads to
UploadBucketPath(voice_name, format_type, filename) ==
    <<"AudioProject-Female", "/">> \o voice_name
        \o <<"-", "female", "-", format_type, "/">> \o filename

\* the test of line 165 without the strip
IsEmptyText(text) == text = <<>>

\* line 165: `not text or not text.strip()`
IsBlankText(text) == text = <<>> \/ Strip(text) = <<>>

\* the voice and the directories the running call works with
VoiceName == IF voice_info.voices = <<>> THEN <<"no-voice">> ELSE voice_info.voices[1].name

WavDir == WavDirOf(VoiceName)

OggDir == OggDirOf(VoiceName)

GenInit ==
    /\ MatchOff
    /\ RestOff
    /\ translation_data \in TranslationFiles
    /\ voice_info \in VoiceInfos
    /\ skip_existing \in BOOLEAN
    /\ bucket_manager \in BOOLEAN
    \* without skip_existing the bucket is never asked: one entry shows it
    /\ (~skip_existing /\ bucket_manager) => Len(translation_data) <= 1
    /\ local_dirs = {}
    /\ local_files = {}
    /\ bucket_files = {}
    /\ stats = ZeroStats
    /\ returned = "nothing"
    /\ entry = 1
    /\ wav_exists_in_bucket = FALSE
    /\ ogg_exists_in_bucket = FALSE
    /\ entry_calls = {}
    /\ check_lost = FALSE
    /\ previous = NoPrevious
    /\ gpc = "idle"

\* line 149: 'total_entries': len(translation_data)
TotalEntries(data) == Len(data)

\* lines 130-161: load the translation, make the directories, set the counters
GenerateBegin ==
    /\ gpc \in {"idle", "returned"}
    /\ previous' = IF gpc = "returned" /\ returned = "stats"
                   THEN [complete |-> TRUE,
                         clean |-> stats.wav_failed + stats.ogg_failed = 0,
                         local_files |-> local_files]
                   ELSE NoPrevious
    /\ entry' = 1
    /\ entry_calls' = {}
    /\ check_lost' = FALSE
    /\ wav_exists_in_bucket' = FALSE
    /\ ogg_exists_in_bucket' = FALSE
    /\ IF translation_data = <<>>
       THEN /\ returned' = "None"
            /\ gpc' = "returned"
            /\ UNCHANGED <<stats, local_dirs>>
       ELSE /\ local_dirs' = local_dirs \cup {WavDir, OggDir}
            /\ stats' = [ZeroStats EXCEPT !.total_entries = TotalEntries(translation_data)]
            /\ IF voice_info.voices = <<>>
               THEN returned' = "stats" /\ gpc' = "returned"
               ELSE returned' = "nothing" /\ gpc' = "entry"
    /\ UNCHANGED <<translation_data, voice_info, skip_existing, bucket_manager,
                   local_files, bucket_files>>
    /\ UNCHANGED matchVars
    /\ UNCHANGED restVars

\* lines 164-181: the next entry; a blank text is passed over, otherwise the
\* bucket is asked for both files when a bucket manager is there; the calls
\* of the entry note a check that raised for an object that is there
EntryBegin ==
    /\ gpc = "entry"
    /\ entry <= Len(translation_data)
    /\ LET key == translation_data[entry].key
           text == translation_data[entry].text
       IN  IF IsBlankText(text)
           THEN /\ entry' = entry + 1
                /\ UNCHANGED <<gpc, wav_exists_in_bucket, ogg_exists_in_bucket,
                               entry_calls, check_lost>>
           ELSE /\ gpc' = "wav"
                /\ entry' = entry
                /\ IF bucket_manager /\ skip_existing
                   THEN \E wav_raises, ogg_raises \in BOOLEAN :
                            LET wav_lost ==
                                    /\ wav_raises
                                    /\ CheckedBucketPath(VoiceName, "WAV", WavFilename(key))
                                           \in bucket_files
                                ogg_lost ==
                                    /\ ogg_raises
                                    /\ CheckedBucketPath(VoiceName, "OGG", OggFilename(key))
                                           \in bucket_files
                            IN  /\ wav_exists_in_bucket' =
                                       check_file_exists_in_bucket(
                                           bucket_files, VoiceName, "WAV",
                                           WavFilename(key), wav_raises)
                                /\ ogg_exists_in_bucket' =
                                       check_file_exists_in_bucket(
                                           bucket_files, VoiceName, "OGG",
                                           OggFilename(key), ogg_raises)
                                /\ check_lost' = (check_lost \/ wav_lost \/ ogg_lost)
                                /\ entry_calls' =
                                       {"exists_wav", "exists_ogg"}
                                           \cup (IF wav_lost THEN {"wav_check_lost"} ELSE {})
                                           \cup (IF ogg_lost THEN {"ogg_check_lost"} ELSE {})
                   ELSE /\ wav_exists_in_bucket' = FALSE
                        /\ ogg_exists_in_bucket' = FALSE
                        /\ entry_calls' = {}
                        /\ UNCHANGED check_lost
    /\ UNCHANGED <<translation_data, voice_info, skip_existing, bucket_manager,
                   local_dirs, local_files, bucket_files, stats, returned, previous>>
    /\ UNCHANGED matchVars
    /\ UNCHANGED restVars

\* a count that leaves the failed transcodes out
IncrementButOggFailed(counters, field) ==
    IF field = "ogg_failed"
    THEN counters
    ELSE [counters EXCEPT ![field] = @ + 1]

\* stats[field] += 1
Increment(counters, field) == [counters EXCEPT ![field] = @ + 1]

\* the skip test that looks at the local file only
ShouldSkipLocalOnly(skip, local_exists, exists_in_bucket) == skip /\ local_exists

\* the skip test with `and` in place of `or`
ShouldSkipIfBoth(skip, local_exists, exists_in_bucket) ==
    skip /\ (local_exists /\ exists_in_bucket)

\* lines 185 and 201
ShouldSkip(skip, local_exists, exists_in_bucket) ==
    skip /\ (local_exists \/ exists_in_bucket)

\* the outcomes of make_wav: the file written, an error before the file is
\* opened, an error while it is written
MakeWavOutcomes == {"written", "error", "error_after_open"}

\* lines 184-197: the WAV of the entry is skipped, made or failed
WavStep ==
    /\ gpc = "wav"
    /\ LET key == translation_data[entry].key
           wav_path == PathJoin(WavDir, WavFilename(key))
           local_wav_exists == wav_path \in local_files
       IN  IF ShouldSkip(skip_existing, local_wav_exists, wav_exists_in_bucket)
           THEN /\ stats' = Increment(stats, "wav_skipped")
                /\ gpc' = "ogg"
                /\ UNCHANGED <<entry, entry_calls, local_files, local_dirs>>
           ELSE \E outcome \in MakeWavOutcomes :
                    /\ entry_calls' = entry_calls \cup {"make_wav"}
                    /\ local_dirs' = local_dirs \cup {WavDir}
                    /\ local_files' = IF outcome = "error"
                                      THEN local_files
                                      ELSE local_files \cup {wav_path}
                    /\ IF outcome = "written"
                       THEN /\ stats' = Increment(stats, "wav_made")
                            /\ gpc' = "ogg"
                            /\ entry' = entry
                       ELSE /\ stats' = Increment(stats, "wav_failed")
                            /\ gpc' = "entry"
                            /\ entry' = entry + 1
    /\ UNCHANGED <<translation_data, voice_info, skip_existing, bucket_manager,
                   bucket_files, returned, wav_exists_in_bucket, ogg_exists_in_bucket,
                   check_lost, previous>>
    /\ UNCHANGED matchVars
    /\ UNCHANGED restVars

\* a test that takes the WAV to be on disk whatever the disk holds
AnyWavExists(wav_path, files) == TRUE

\* line 207: os.path.exists(wav_path)
LocalWavExists(wav_path, files) == wav_path \in files

\* lines 200-215: the OGG of the entry is skipped, made or failed
OggStep ==
    /\ gpc = "ogg"
    /\ LET key == translation_data[entry].key
           wav_path == PathJoin(WavDir, WavFilename(key))
           ogg_path == PathJoin(OggDir, OggFilename(key))
           local_ogg_exists == ogg_path \in local_files
       IN  IF ShouldSkip(skip_existing, local_ogg_exists, ogg_exists_in_bucket)
           THEN /\ stats' = Increment(stats, "ogg_skipped")
                /\ UNCHANGED <<entry_calls, local_files, local_dirs>>
           ELSE IF LocalWavExists(wav_path, local_files)
                THEN \E converted \in BOOLEAN :
                         /\ entry_calls' = entry_calls \cup {"wav_to_ogg"}
                         /\ local_dirs' = local_dirs \cup {OggDir}
                         /\ IF converted
                            THEN /\ local_files' = local_files \cup {ogg_path}
                                 /\ stats' = Increment(stats, "ogg_made")
                            ELSE /\ UNCHANGED local_files
                                 /\ stats' = Increment(stats, "ogg_failed")
                ELSE /\ stats' = Increment(stats, "ogg_failed")
                     /\ UNCHANGED <<entry_calls, local_files, local_dirs>>
    /\ gpc' = "entry"
    /\ entry' = entry + 1
    /\ UNCHANGED <<translation_data, voice_info, skip_existing, bucket_manager,
                   bucket_files, returned, wav_exists_in_bucket, ogg_exists_in_bucket,
                   check_lost, previous>>
    /\ UNCHANGED matchVars
    /\ UNCHANGED restVars

\* line 217: the loop is over, the counters are returned
GenerateReturn ==
    /\ gpc = "entry"
    /\ entry > Len(translation_data)
    /\ gpc' = "returned"
    /\ returned' = "stats"
    /\ UNCHANGED <<translation_data, voice_info, skip_existing, bucket_manager,
                   local_dirs, local_files, bucket_files, stats, entry,
                   wav_exists_in_bucket, ogg_exists_in_bucket, entry_calls,
                   check_lost, previous>>
    /\ UNCHANGED matchVars
    /\ UNCHANGED restVars

\* the process is killed in the middle of a language; the files stay
Crash ==
    /\ gpc \in {"entry", "wav", "ogg"}
    /\ gpc' = "idle"
    /\ returned' = "nothing"
    /\ stats' = ZeroStats
    /\ entry' = 1
    /\ wav_exists_in_bucket' = FALSE
    /\ ogg_exists_in_bucket' = FALSE
    /\ entry_calls' = {}
    /\ check_lost' = FALSE
    /\ previous' = NoPrevious
    /\ UNCHANGED <<translation_data, voice_info, skip_existing, bucket_manager,
                   local_dirs, local_files, bucket_files>>
    /\ UNCHANGED matchVars
    /\ UNCHANGED restVars

\* the files of a directory with the given suffix
FilesIn(directory, suffix) ==
    {f \in local_files : StartsWith(f, directory \o <<"/">>) /\ EndsWith(f, <<suffix>>)}

\* the name of a file within its directory
BaseName(path, directory) == SubSeq(path, Len(directory) + 2, Len(path))

\* transfer_generated_files_to_bucket: every .wav and .ogg of the two
\* directories is uploaded, each upload succeeds or fails, and both
\* directories are removed
TransferEffect ==
    /\ \E wav_uploaded \in SUBSET FilesIn(WavDir, ".wav") :
       \E ogg_uploaded \in SUBSET FilesIn(OggDir, ".ogg") :
           bucket_files' =
               bucket_files
                   \cup {UploadBucketPath(VoiceName, "WAV", BaseName(f, WavDir)) :
                             f \in wav_uploaded}
                   \cup {UploadBucketPath(VoiceName, "OGG", BaseName(f, OggDir)) :
                             f \in ogg_uploaded}
    /\ local_files' = {f \in local_files :
                           /\ ~StartsWith(f, WavDir \o <<"/">>)
                           /\ ~StartsWith(f, OggDir \o <<"/">>)}
    /\ local_dirs' = local_dirs \ {WavDir, OggDir}

\* main, lines 294-299: the transfer that follows a call which returned
\* its counters
TransferGenerated ==
    /\ gpc = "returned"
    /\ returned = "stats"
    /\ bucket_manager
    /\ voice_info.voices # <<>>
    /\ TransferEffect
    /\ gpc' = "idle"
    /\ returned' = "nothing"
    /\ stats' = ZeroStats
    /\ entry' = 1
    /\ entry_calls' = {}
    /\ check_lost' = FALSE
    /\ previous' = NoPrevious
    /\ UNCHANGED <<translation_data, voice_info, skip_existing, bucket_manager,
                   wav_exists_in_bucket, ogg_exists_in_bucket>>
    /\ UNCHANGED matchVars
    /\ UNCHANGED restVars

GenNext ==
    \/ GenerateBegin
    \/ EntryBegin
    \/ WavStep
    \/ OggStep
    \/ GenerateReturn
    \/ Crash
    \/ TransferGenerated

SpecGen == GenInit /\ [][GenNext]_vars

(***************************************************************************)
(* Properties of match_languages_to_voices (checked under SpecMatch).      *)
(***************************************************************************)
TraceIndices == 1..Len(match_trace)

ResultIndices == 1..Len(language_voice_mapping)

HasResultFor(code) ==
    \E k \in ResultIndices : language_voice_mapping[k].google_language_code = code

\* C3: no two entries of the returned mapping have the same
\* google_language_code.
C3_UsedLanguageExclusivity ==
    \A i, j \in ResultIndices :
        i # j => language_voice_mapping[i].google_language_code
                     # language_voice_mapping[j].google_language_code

\* two translation files resolved to the same catalog code, one of them matched
C3_Witness ==
    /\ mpc = "done"
    /\ \E i, j \in TraceIndices :
           /\ i < j
           /\ match_trace[i].op = "find_matching"
           /\ match_trace[j].op = "find_matching"
           /\ match_trace[i].result = match_trace[j].result
           /\ HasResultFor(match_trace[i].result)

\* C4 as stated: a language whose audio directory exists is left out of the
\* result, is not handed to select_voices_for_language and is not added to
\* the used-languages set.
C4_ExistingAudioExcluded ==
    \A k \in TraceIndices :
        (match_trace[k].op = "check_existing" /\ match_trace[k].result)
            => /\ ~HasResultFor(match_trace[k].code)
               /\ match_trace[k].code \notin used_languages
               /\ \A n \in TraceIndices :
                      ~(match_trace[n].op = "select_voices"
                            /\ match_trace[n].code = match_trace[k].code)

\* C4 amended: the directory check runs before voice selection and decides
\* nothing: selection follows every check, and whenever it finds a female
\* voice the language is in the result and in the used-languages set.
C4_ExistingAudioStillProcessed ==
    \A k \in TraceIndices :
        /\ match_trace[k].op = "check_existing"
               => /\ k + 1 \in TraceIndices
                  /\ match_trace[k + 1].op = "select_voices"
                  /\ match_trace[k + 1].code = match_trace[k].code
                  /\ match_trace[k + 1].result # <<>>
                         => /\ HasResultFor(match_trace[k].code)
                            /\ match_trace[k].code \in used_languages
        /\ match_trace[k].op = "select_voices"
               => /\ k - 1 \in TraceIndices
                  /\ match_trace[k - 1].op = "check_existing"

\* a language with an existing audio directory was matched all the same
C4_Witness ==
    \E k \in TraceIndices :
        /\ match_trace[k].op = "check_existing"
        /\ match_trace[k].result
        /\ HasResultFor(match_trace[k].code)
        /\ match_trace[k].code \in used_languages

\* whether string s matches a glob pattern, "*" standing for any substring
RECURSIVE Glob(_, _)
Glob(pattern, s) ==
    IF pattern = <<>>
    THEN s = <<>>
    ELSE IF Head(pattern) = "*"
         THEN \E n \in 0..Len(s) : Glob(Tail(pattern), SubSeq(s, n + 1, Len(s)))
         ELSE s # <<>> /\ Head(s) = Head(pattern) /\ Glob(Tail(pattern), Tail(s))

\* C5 as stated: the check answers true exactly when the local working
\* directory or the bucket holds a directory named {code}-*-female-*.
C5_CompleteIffDirectoryInStore ==
    \A k \in TraceIndices :
        match_trace[k].op = "check_existing"
            => match_trace[k].result
                   = \E name \in {d.name : d \in {e \in store.local : e.is_dir}}
                                     \cup store.bucket :
                         Glob(match_trace[k].code \o <<"-", "*", "-", "female", "-", "*">>,
                              name)

\* C5 amended: the check answers true exactly when the local working
\* directory can be listed and holds a directory whose name starts with
\* {code}- and contains -female- (the two may share the hyphen), however
\* many files it holds; the bucket is not consulted.
C5_CompleteIffLocalDirectory ==
    \A k \in TraceIndices :
        match_trace[k].op = "check_existing"
            => match_trace[k].result
                   = /\ ~store.listdir_fails
                     /\ \E d \in store.local :
                            /\ d.is_dir
                            /\ Glob(match_trace[k].code \o <<"-", "*">>, d.name)
                            /\ Glob(<<"*", "-", "female", "-", "*">>, d.name)

\* the check answered true for a directory without files
C5_Witness ==
    \E k \in TraceIndices :
        /\ match_trace[k].op = "check_existing"
        /\ match_trace[k].result
        /\ \A d \in store.local : d.files = 0

\* C6 as stated: with "af-ZA" in the catalog, the match for af_za / afr is
\* "af-ZA", whatever the order of the catalog.
C6_MatchIsCatalogCodeAfZA ==
    \A k \in TraceIndices :
        (/\ match_trace[k].op = "find_matching"
         /\ match_trace[k].code = InGame_af_za
         /\ match_trace[k].iso = Code_afr
         /\ Code_afZA \in Range(CatalogCodes(google_voices)))
            => match_trace[k].result = Code_afZA

\* C6 amended: a successful match is a code of the catalog, verbatim, and it
\* is the first one in catalog order with the wanted comparison form; for
\* af_za / afr it is "af-ZA" whenever "af-ZA" is the only catalog code whose
\* comparison form is af-za, whatever the order of the catalog.
C6_MatchIsFirstCatalogCode ==
    \A k \in TraceIndices :
        match_trace[k].op = "find_matching"
            => LET codes == CatalogCodes(google_voices)
                   result == match_trace[k].result
                   same_form(c) == Replace(Lower(c), "_", "-")
                                       = Replace(Lower(result), "_", "-")
               IN  /\ result # None
                       => \E i \in 1..Len(codes) :
                              /\ codes[i] = result
                              /\ \A j \in 1..(i - 1) : ~same_form(codes[j])
                   /\ (/\ match_trace[k].code = InGame_af_za
                       /\ match_trace[k].iso = Code_afr
                       /\ Code_afZA \in Range(codes)
                       /\ \A c \in Range(codes) :
                              Replace(Lower(c), "_", "-") = Code_afza => c = Code_afZA)
                          => result = Code_afZA

\* af_za was matched to "af-ZA" in a catalog whose first voice does not offer it
C6_Witness ==
    \E k \in TraceIndices :
        /\ match_trace[k].op = "find_matching"
        /\ match_trace[k].code = InGame_af_za
        /\ match_trace[k].result = Code_afZA
        /\ Code_afZA \notin Range(google_voices[1].language_codes)

\* C7: the selected voice is a female voice of the language with the lowest
\* tier among the language's female voices; when one of them carries the
\* Chirp3-HD marker the selected voice carries it, whatever the catalog
\* order. select_new_voice_for_language selects the same voice.
C7_SelectionPriority ==
    \A k \in ResultIndices :
        LET code == language_voice_mapping[k].google_language_code
            chosen == language_voice_mapping[k].voices[1].name
            female == {v \in Range(google_voices) :
                           v.ssml_gender = "FEMALE" /\ code \in Range(v.language_codes)}
        IN  /\ Len(language_voice_mapping[k].voices) = 1
            /\ \E v \in female :
                   /\ v.name = chosen
                   /\ \A w \in female : get_voice_priority(v) <= get_voice_priority(w)
            /\ (\E w \in female : Contains(w.name, Chirp3HD)) => Contains(chosen, Chirp3HD)
            /\ select_new_voice_for_language(code, google_voices) = chosen

\* a Chirp3-HD voice was selected although a female Neural2 voice of the
\* language comes first in the catalog
C7_Witness ==
    \E k \in ResultIndices :
        LET code == language_voice_mapping[k].google_language_code
            chosen == language_voice_mapping[k].voices[1].name
        IN  /\ Contains(chosen, Chirp3HD)
            /\ \E i, j \in 1..Len(google_voices) :
                   /\ i < j
                   /\ google_voices[j].name = chosen
                   /\ Contains(google_voices[i].name, Neural2)
                   /\ google_voices[i].ssml_gender = "FEMALE"
                   /\ code \in Range(google_voices[i].language_codes)

(***************************************************************************)
(* Properties of the generation pipeline (checked under SpecGen).          *)
(***************************************************************************)
\* a text that is empty or consists of whitespace only
OnlyWhitespace(text) == \A i \in 1..Len(text) : text[i] = " "

\* the call ran its loop to the end and returned its counters
LoopFinished == gpc = "returned" /\ returned = "stats" /\ voice_info.voices # <<>>

C2_StatsConservation ==
    LoopFinished
        => /\ stats.wav_made + stats.wav_skipped + stats.wav_failed = stats.total_entries
           /\ stats.total_entries
                  = Cardinality({i \in 1..Len(translation_data) :
                                     ~OnlyWhitespace(translation_data[i].text)})

\* C8: with skip_existing, an entry whose WAV is there (on disk or in the
\* bucket) has its WAV skipped, and when its OGG is nowhere the OGG step
\* calls wav_to_ogg.
C8_WavWithoutOggResumes ==
    [][LET key == translation_data[entry].key
           wav_local == PathJoin(WavDir, WavFilename(key)) \in local_files
           wav_remote == /\ bucket_manager
                         /\ CheckedBucketPath(VoiceName, "WAV", WavFilename(key))
                                \in bucket_files
           ogg_local == PathJoin(OggDir, OggFilename(key)) \in local_files
           ogg_remote == CheckedBucketPath(VoiceName, "OGG", OggFilename(key))
                             \in bucket_files
       IN  /\ (gpc = "wav" /\ gpc' # "idle" /\ skip_existing /\ ~check_lost
                   /\ (wav_local \/ wav_remote))
               => /\ stats'.wav_skipped = stats.wav_skipped + 1
                  /\ gpc' = "ogg"
           /\ (gpc = "ogg" /\ gpc' # "idle" /\ skip_existing /\ ~check_lost
                   /\ "make_wav" \notin entry_calls
                   /\ ~ogg_local /\ ~ogg_remote)
               => "wav_to_ogg" \in entry_calls'
      ]_vars

\* C9: when make_wav fails for an entry, ogg_failed goes up by one and
\* wav_to_ogg is not called for the entry.
C9_WavFailureFailsOgg ==
    [][(gpc = "wav" /\ stats'.wav_failed = stats.wav_failed + 1)
           => /\ stats'.ogg_failed = stats.ogg_failed + 1
              /\ "wav_to_ogg" \notin entry_calls'
      ]_vars

\* C10: an entry whose text is empty or whitespace only changes none of the
\* counters, calls neither the existence check nor make_wav nor wav_to_ogg,
\* and no file of its key exists, on disk or in the bucket.
C10_BlankEntriesLeaveNoTrace ==
    /\ [](\A i \in 1..Len(translation_data) :
              OnlyWhitespace(translation_data[i].text)
                  => \A f \in local_files \cup bucket_files :
                         translation_data[i].key \notin Range(f))
    /\ [][(/\ gpc = "entry"
           /\ gpc' # "idle"
           /\ entry <= Len(translation_data)
           /\ OnlyWhitespace(translation_data[entry].text))
              => /\ stats' = stats
                 /\ entry_calls' = entry_calls
                 /\ local_files' = local_files
                 /\ bucket_files' = bucket_files
                 /\ gpc' = "entry"
                 /\ entry' = entry + 1
         ]_vars

\* a file with a whitespace-only entry and an entry that was made
C10_Witness ==
    /\ LoopFinished
    /\ stats.wav_made = 1
    /\ stats.total_entries = 2
    /\ \E i \in 1..Len(translation_data) : translation_data[i].text = <<" ", " ">>

(***************************************************************************)
(* Further properties of the matcher (checked under SpecMatch).            *)
(***************************************************************************)
\* whether some catalog code has the comparison form of `code`
CatalogOffers(code) ==
    \E c \in Range(CatalogCodes(google_voices)) : NormalizeCode(c) = NormalizeCode(code)

\* the find_matching records of the trace
FindIndices == {k \in TraceIndices : match_trace[k].op = "find_matching"}

\* C12: the match is a catalog code with the comparison form of the
\* converted in-game code whenever the catalog offers one; otherwise one with
\* the form of the ISO code whenever the catalog offers that; otherwise it
\* is None, the localization gets no entry in the result, and the loop
\* goes on: at the end every translation file has been looked up.
C12_InGameBeforeIso ==
    /\ \A k \in FindIndices :
           LET in_game == convert_language_code(match_trace[k].code)
               iso == match_trace[k].iso
               result == match_trace[k].result
           IN  /\ CatalogOffers(in_game)
                      => /\ result \in Range(CatalogCodes(google_voices))
                         /\ NormalizeCode(result) = NormalizeCode(in_game)
               /\ (~CatalogOffers(in_game) /\ CatalogOffers(iso))
                      => /\ result \in Range(CatalogCodes(google_voices))
                         /\ NormalizeCode(result) = NormalizeCode(iso)
               /\ (~CatalogOffers(in_game) /\ ~CatalogOffers(iso))
                      => /\ result = None
                         /\ \A n \in ResultIndices :
                                language_voice_mapping[n].in_game_code
                                    # match_trace[k].code
    /\ (mpc = "done" /\ language_mapping # <<>>)
           => Cardinality(FindIndices) = Len(translation_files)

\* a localization without any match was followed by one whose in-game code
\* and ISO code match different catalog codes, and the latter got its entry
\* under the in-game match
C12_Witness ==
    /\ mpc = "done"
    /\ \E i, j \in FindIndices :
           /\ i < j
           /\ match_trace[i].result = None
           /\ match_trace[j].result = Code_afZA
           /\ CatalogOffers(match_trace[j].iso)
           /\ NormalizeCode(match_trace[j].iso) # NormalizeCode(Code_afZA)
           /\ HasResultFor(Code_afZA)

(***************************************************************************)
(* select_voices_for_language called on its own, with any language code    *)
(* and catalogs that hold several female voices of one tier.               *)
(***************************************************************************)
\* the catalog records of these calls: those of VoicePool and two more of
\* the tiers Neural2 and Chirp3-HD
SelectPool ==
    VoicePool \cup
    { [name |-> Code_afZA \o <<"-", "Neural2", "-", "C">>,
       language_codes |-> <<Code_afZA>>, ssml_gender |-> "FEMALE"],
      [name |-> Code_afZA \o <<"-", "Chirp3", "-", "HD", "-", "F">>,
       language_codes |-> <<Code_afZA>>, ssml_gender |-> "FEMALE"] }

SelectCatalogs == SeqsOfDistinct(SelectPool, MaxCatalog)

SelectCodes == {Code_afZA, Code_afza, Code_enUS, Code_afr}

SelectInit ==
    /\ GenOff
    /\ RestOff
    /\ google_voices \in SelectCatalogs
    /\ html_table = GoodHtmlTable
    /\ processed_dir = <<>>
    /\ store = NoAudioStore
    /\ used_languages = {}
    /\ used_initial = {}
    /\ language_mapping = <<>>
    /\ translation_files = <<>>
    /\ next_file = 1
    /\ language_voice_mapping = <<>>
    /\ match_trace = <<>>
    /\ mpc = "select"

\* one call select_voices_for_language(language_code, google_voices)
SelectCall ==
    /\ mpc = "select"
    /\ \E language_code \in SelectCodes :
           match_trace' =
               Append(match_trace,
                      [op |-> "select_voices", code |-> language_code, iso |-> <<>>,
                       result |-> select_voices_for_language(language_code, google_voices)])
    /\ mpc' = "selected"
    /\ UNCHANGED <<google_voices, html_table, processed_dir, store, used_languages,
                   used_initial, language_mapping, translation_files, next_file,
                   language_voice_mapping>>
    /\ UNCHANGED genVars
    /\ UNCHANGED restVars

SelectNext == SelectCall

SpecSelect == SelectInit /\ [][SelectNext]_vars

\* the select_voices records of the trace
SelectIndices == {k \in TraceIndices : match_trace[k].op = "select_voices"}

\* the positions of the catalog voices that are female and list the code
\* verbatim
FemaleFor(code) ==
    {i \in 1..Len(google_voices) :
         /\ google_voices[i].ssml_gender = "FEMALE"
         /\ \E n \in 1..Len(google_voices[i].language_codes) :
                google_voices[i].language_codes[n] = code}

\* C13: a returned voice is a female catalog voice listing the code
\* verbatim, the result is empty exactly when the catalog has no such voice,
\* and it never holds more than one voice.
C13_SelectorFilter ==
    \A k \in SelectIndices :
        LET result == match_trace[k].result
            code == match_trace[k].code
        IN  /\ Len(result) <= 1
            /\ result # <<>>
                   => \E i \in FemaleFor(code) : google_voices[i].name = result[1].name
            /\ (result = <<>>) = (FemaleFor(code) = {})

\* the code af-za was asked for in a catalog that offers a better voice
\* under af-ZA and a male one, and the af-za voice was returned
C13_Witness ==
    \E k \in SelectIndices :
        /\ match_trace[k].code = Code_afza
        /\ match_trace[k].result # <<>>
        /\ FemaleFor(Code_afZA) # {}
        /\ \E i \in 1..Len(google_voices) : google_voices[i].ssml_gender = "MALE"

\* C14: the returned voice is the earliest voice of the catalog among the
\* female voices of the code that have the lowest tier.
C14_TieBreakByCatalogOrder ==
    \A k \in SelectIndices :
        LET result == match_trace[k].result
            female == FemaleFor(match_trace[k].code)
            best == {i \in female :
                         \A j \in female :
                             get_voice_priority(google_voices[i])
                                 <= get_voice_priority(google_voices[j])}
        IN  result # <<>>
                => \E i \in best :
                       /\ \A j \in best : i <= j
                       /\ result[1].name = google_voices[i].name

\* two female voices of the best tier, behind a voice of a lower tier, and
\* the first of the two was returned
C14_Witness ==
    \E k \in SelectIndices :
        LET female == FemaleFor(match_trace[k].code)
        IN  \E i, j \in female :
                /\ 1 < i
                /\ i < j
                /\ 1 \in female
                /\ get_voice_priority(google_voices[i]) = get_voice_priority(google_voices[j])
                /\ get_voice_priority(google_voices[i]) < get_voice_priority(google_voices[1])
                /\ match_trace[k].result # <<>>
                /\ match_trace[k].result[1].name = google_voices[i].name

(***************************************************************************)
(* archive_manager.py and main.get_minecraft_version.  The directories of  *)
(* the working directory are in local_dirs, the files in local_files.      *)
(***************************************************************************)
\* main.py line 63: version = "1.21.4"
DefaultVersion == <<"1.21.4">>

ArchiveBase == <<"Archive">>

\* the run name with the following number instead of the given one
VersionWithNextRun(version, number) == version \o <<"-", ToString(number + 1)>>

\* f"{version}-{run_number}"
VersionWithRun(version, number) == version \o <<"-", ToString(number)>>

\* os.path.exists
PathExists(path) == path \in local_dirs \/ path \in local_files

\* the version names an archive directory may carry before the call
ArchiveNames ==
    {DefaultVersion}
        \cup {VersionWithRun(DefaultVersion, n) : n \in 1..MaxRuns}
        \cup {VersionWithRun(VersionWithRun(DefaultVersion, 1), n) : n \in 1..MaxRuns}

TranslationsDir == <<"Translations">>

ReferenceFilesDir == <<"Reference_Files">>

\* the files the Translations directory may hold, with the keys load_json
\* finds in them
TranslationDirCases ==
    { {},
      {[name |-> InGame_af_za \o ProcessedSuffix, keys |-> {"item.a"}]},
      {[name |-> InGame_af_za \o ProcessedSuffix, keys |-> {"item.a"}],
       [name |-> InGame_en_us \o ProcessedSuffix, keys |-> {"item.a", "item.b"}]},
      {[name |-> InGame_af_za \o ProcessedSuffix, keys |-> {}],
       [name |-> InGame_en_us \o <<".json">>, keys |-> {"item.b"}]} }

ArchVoiceA == Code_afZA \o <<"-", "Neural2", "-", "A">>

ArchVoiceB == Code_enUS \o <<"-", "Chirp", "-", "HD", "-", "E">>

\* the ogg_dirs arguments: one directory, two, one that may be missing
OggDirCases ==
    { <<OggDirOf(ArchVoiceA)>>,
      <<OggDirOf(ArchVoiceA), OggDirOf(ArchVoiceB)>>,
      <<>> }

\* the files the OGG directories may hold
OggDirFilePool ==
    { PathJoin(OggDirOf(ArchVoiceA), OggFilename("item.a")),
      PathJoin(OggDirOf(ArchVoiceA), OggFilename("item.b")),
      PathJoin(OggDirOf(ArchVoiceA), <<"summary.txt">>),
      PathJoin(OggDirOf(ArchVoiceB), OggFilename("item.a")),
      PathJoin(OggDirOf(ArchVoiceB), OggFilename("item.c")) }

\* the directory a path lies in, and its file name
DirName(path) ==
    LET k == CHOOSE i \in 1..Len(path) :
                 path[i] = "/" /\ \A j \in (i + 1)..Len(path) : path[j] # "/"
    IN  SubSeq(path, 1, k - 1)

FileName(path) ==
    LET k == CHOOSE i \in 1..Len(path) :
                 path[i] = "/" /\ \A j \in (i + 1)..Len(path) : path[j] # "/"
    IN  SubSeq(path, k + 1, Len(path))

ArchInit ==
    /\ MainOff
    /\ translation_data = <<>>
    /\ voice_info = [in_game_code |-> <<>>, voices |-> <<>>]
    /\ skip_existing = TRUE
    /\ bucket_manager = FALSE
    /\ bucket_files = {}
    /\ stats = ZeroStats
    /\ returned = "nothing"
    /\ entry = 1
    /\ wav_exists_in_bucket = FALSE
    /\ ogg_exists_in_bucket = FALSE
    /\ entry_calls = {}
    /\ check_lost = FALSE
    /\ previous = NoPrevious
    /\ gpc = "off"
    /\ google_voices = <<>>
    /\ html_table = GoodHtmlTable
    /\ processed_dir = <<>>
    /\ store = NoAudioStore
    /\ used_languages = {}
    /\ used_initial = {}
    /\ language_mapping = <<>>
    /\ translation_files = <<>>
    /\ next_file = 1
    /\ language_voice_mapping = <<>>
    /\ match_trace = <<>>
    /\ mpc = "off"
    /\ run_number = 1
    /\ arch_result = None
    /\ all_translation_keys = {}
    /\ ogg_index = 1
    /\ apc = "call"
    /\ \/ /\ arch_fn = "get_minecraft_version"
          /\ base_version = DefaultVersion
          /\ \E names \in SUBSET ArchiveNames, base_exists \in BOOLEAN :
                 local_dirs = {PathJoin(ArchiveBase, n) : n \in names}
                                  \cup (IF base_exists \/ names # {}
                                        THEN {ArchiveBase} ELSE {})
          /\ local_files = {}
          /\ translations_dir = {}
          /\ ogg_dirs = <<>>
       \/ /\ arch_fn = "get_archive_directory"
          /\ base_version \in {DefaultVersion, VersionWithRun(DefaultVersion, 1)}
          /\ \E names \in SUBSET ArchiveNames :
                 local_dirs = {PathJoin(ArchiveBase, n) : n \in names}
                                  \cup (IF names # {} THEN {ArchiveBase} ELSE {})
          /\ local_files = {}
          /\ translations_dir = {}
          /\ ogg_dirs = <<>>
       \/ /\ arch_fn = "archive_run_data"
          /\ base_version = DefaultVersion
          /\ translations_dir \in TranslationDirCases
          /\ ogg_dirs \in OggDirCases
          /\ \E archived \in BOOLEAN, reference \in BOOLEAN,
                files \in SUBSET OggDirFilePool :
                 /\ local_files = files
                 /\ local_dirs =
                        (IF archived
                         THEN {ArchiveBase, PathJoin(ArchiveBase, DefaultVersion)}
                         ELSE {})
                            \cup (IF reference THEN {ReferenceFilesDir} ELSE {})
                            \cup (IF translations_dir # {} THEN {TranslationsDir} ELSE {})
                            \cup {DirName(f) : f \in files}

\* the frame of the functions of archive_manager.py
ArchFrame ==
    /\ UNCHANGED <<arch_fn, base_version, translations_dir, ogg_dirs>>
    /\ UNCHANGED matchVars
    /\ UNCHANGED mainVars
    /\ UNCHANGED <<translation_data, voice_info, skip_existing, bucket_manager,
                   bucket_files, stats, returned, entry, wav_exists_in_bucket,
                   ogg_exists_in_bucket, entry_calls, check_lost, previous, gpc>>

\* where a probing loop that found its name goes on: archive_run_data
\* continues with the directory, the other two functions return
AfterProbe == IF arch_fn = "archive_run_data" THEN "keys" ELSE "returned"

\* what the function hands back for a free version name: the name
\* (get_minecraft_version) or the path below Archive
ProbeResult(name) ==
    IF arch_fn = "get_minecraft_version" THEN name ELSE PathJoin(ArchiveBase, name)

\* main.py lines 63-66 and archive_manager.py lines 14-21: the test of the
\* plain version name; get_archive_directory creates Archive first
ArchCall ==
    /\ apc = "call"
    /\ local_dirs' = IF arch_fn = "get_minecraft_version"
                     THEN local_dirs
                     ELSE local_dirs \cup {ArchiveBase}
    /\ IF ~PathExists(PathJoin(ArchiveBase, base_version))
       THEN /\ arch_result' = ProbeResult(base_version)
            /\ apc' = AfterProbe
       ELSE /\ arch_result' = arch_result
            /\ apc' = "probe"
    /\ run_number' = 1
    /\ UNCHANGED <<local_files, all_translation_keys, ogg_index>>
    /\ ArchFrame

\* main.py lines 68-75 and archive_manager.py lines 24-30: one pass of the
\* `while True` loop
ArchProbe ==
    /\ apc = "probe"
    /\ LET version_with_run == VersionWithRun(base_version, run_number)
       IN  IF ~PathExists(PathJoin(ArchiveBase, version_with_run))
           THEN /\ arch_result' = ProbeResult(version_with_run)
                /\ apc' = AfterProbe
                /\ UNCHANGED run_number
           ELSE /\ run_number' = run_number + 1
                /\ UNCHANGED <<arch_result, apc>>
    /\ UNCHANGED <<local_dirs, local_files, all_translation_keys, ogg_index>>
    /\ ArchFrame

\* every ogg file is taken, whatever its key
IsAnyKey(key, keys) == TRUE

\* archive_manager.py line 101: `key in all_translation_keys`
IsTranslationKey(key, keys) == key \in keys

\* lines 58-64: the keys of the files named *_processed.json
ProcessedKeys(files) ==
    UNION {f.keys : f \in {g \in files : EndsWith(g.name, ProcessedSuffix)}}

\* archive_manager.py lines 50-85: the archive directory is created, the
\* keys are collected, Translations is copied and removed, Reference_Files
\* is copied
ArchiveKeys ==
    /\ apc = "keys"
    /\ all_translation_keys' =
           IF PathExists(TranslationsDir) THEN ProcessedKeys(translations_dir) ELSE {}
    /\ local_dirs' =
           ((local_dirs \cup {arch_result}) \ {TranslationsDir})
               \cup (IF PathExists(TranslationsDir)
                     THEN {PathJoin(arch_result, TranslationsDir)} ELSE {})
               \cup (IF PathExists(ReferenceFilesDir)
                     THEN {PathJoin(arch_result, ReferenceFilesDir)} ELSE {})
    /\ local_files' =
           local_files
               \cup (IF PathExists(TranslationsDir)
                     THEN {PathJoin(PathJoin(arch_result, TranslationsDir), f.name) :
                               f \in translations_dir}
                     ELSE {})
    /\ ogg_index' = 1
    /\ apc' = "oggs"
    /\ UNCHANGED <<run_number, arch_result>>
    /\ ArchFrame

\* the .ogg files of a directory that the archive takes
OggFilesToCopy(ogg_dir) ==
    {f \in local_files :
         /\ DirName(f) = ogg_dir
         /\ EndsWith(f, <<".ogg">>)
         /\ IsTranslationKey(FileName(f)[1], all_translation_keys)}

\* lines 92-118: one OGG directory; shutil.copy2 may raise in the middle,
\* which ends the function with None (lines 126-130)
ArchiveOggDir ==
    /\ apc = "oggs"
    /\ ogg_index <= Len(ogg_dirs)
    /\ LET ogg_dir == ogg_dirs[ogg_index]
           archive_ogg == PathJoin(arch_result, ogg_dir)
       IN  IF ~PathExists(ogg_dir)
           THEN /\ ogg_index' = ogg_index + 1
                /\ UNCHANGED <<local_dirs, local_files, arch_result, apc>>
           ELSE /\ local_dirs' = local_dirs \cup {archive_ogg}
                /\ \/ /\ local_files' =
                             local_files \cup {PathJoin(archive_ogg, FileName(f)) :
                                                   f \in OggFilesToCopy(ogg_dir)}
                      /\ ogg_index' = ogg_index + 1
                      /\ UNCHANGED <<arch_result, apc>>
                   \/ /\ OggFilesToCopy(ogg_dir) # {}
                      /\ \E copied \in SUBSET OggFilesToCopy(ogg_dir) :
                             /\ copied # OggFilesToCopy(ogg_dir)
                             /\ local_files' =
                                    local_files \cup {PathJoin(archive_ogg, FileName(f)) :
                                                          f \in copied}
                      /\ arch_result' = None
                      /\ apc' = "returned"
                      /\ UNCHANGED ogg_index
    /\ UNCHANGED <<run_number, all_translation_keys>>
    /\ ArchFrame

\* line 124: return archive_dir
ArchiveReturn ==
    /\ apc = "oggs"
    /\ ogg_index > Len(ogg_dirs)
    /\ apc' = "returned"
    /\ UNCHANGED <<local_dirs, local_files, run_number, arch_result,
                   all_translation_keys, ogg_index>>
    /\ ArchFrame

ArchNext ==
    \/ ArchCall
    \/ ArchProbe
    \/ ArchiveKeys
    \/ ArchiveOggDir
    \/ ArchiveReturn

SpecArchive == ArchInit /\ [][ArchNext]_vars

(***************************************************************************)
(* Properties of the archive functions (checked under SpecArchive).        *)
(***************************************************************************)
\* whether Archive/<name> exists
Archived(name) == <<"Archive", "/">> \o name \in local_dirs

\* the version name a finished probing loop came to
ProbedName ==
    IF arch_fn = "get_minecraft_version"
    THEN arch_result
    ELSE SubSeq(arch_result, 3, Len(arch_result))

\* C15: get_minecraft_version and get_archive_directory return the plain
\* version when Archive/<version> does not exist, otherwise <version>-n
\* with the smallest n >= 1 for which Archive/<version>-n does not exist;
\* the returned name is never one of an existing archive directory.
C15_FirstFreeVersion ==
    (apc = "returned" /\ arch_fn \in {"get_minecraft_version", "get_archive_directory"})
        => /\ ~Archived(ProbedName)
           /\ ~Archived(base_version) => ProbedName = base_version
           /\ Archived(base_version)
                  => \E n \in 1..(MaxRuns + 1) :
                         /\ ProbedName = base_version \o <<"-", ToString(n)>>
                         /\ \A m \in 1..(n - 1) :
                                Archived(base_version \o <<"-", ToString(m)>>)
           /\ arch_fn = "get_archive_directory"
                  => SubSeq(arch_result, 1, 2) = <<"Archive", "/">>

\* get_archive_directory("1.21.4") with Archive/1.21.4 and Archive/1.21.4-1
\* in place returned Archive/1.21.4-2
C15_Witness ==
    /\ apc = "returned"
    /\ arch_fn = "get_archive_directory"
    /\ base_version = <<"1.21.4">>
    /\ Archived(<<"1.21.4", "-", "1">>)
    /\ arch_result = <<"Archive", "/", "1.21.4", "-", "2">>

\* the keys of the processed translation files the call found
KeysOfProcessedFiles ==
    UNION {f.keys : f \in {g \in translations_dir :
                               g.name[Len(g.name)] = "_processed.json"}}

\* the .ogg files below the returned archive directory
ArchivedOggs ==
    {f \in local_files :
         /\ SubSeq(f, 1, Len(arch_result) + 1) = arch_result \o <<"/">>
         /\ f[Len(f)] = ".ogg"}

\* the .ogg files of the directories handed in
SuppliedOggs ==
    {f \in local_files :
         /\ f[Len(f)] = ".ogg"
         /\ \E i \in 1..Len(ogg_dirs) :
                SubSeq(f, 1, Len(ogg_dirs[i]) + 1) = ogg_dirs[i] \o <<"/">>}

\* C16: after archive_run_data returned its directory, every .ogg file
\* below it has the key of some processed translation file as its stem, and
\* every .ogg file of the directories handed in with such a stem is there.
C16_ArchiveKeepsCurrentKeys ==
    (apc = "returned" /\ arch_fn = "archive_run_data" /\ arch_result # None)
        => /\ \A f \in ArchivedOggs : f[Len(f) - 1] \in KeysOfProcessedFiles
           /\ \A f \in SuppliedOggs :
                  f[Len(f) - 1] \in KeysOfProcessedFiles
                      => arch_result \o <<"/">> \o f \in local_files

\* an archive that took one .ogg file and left another, stale one behind
C16_Witness ==
    /\ apc = "returned"
    /\ arch_fn = "archive_run_data"
    /\ arch_result # None
    /\ ArchivedOggs # {}
    /\ \E f \in SuppliedOggs : arch_result \o <<"/">> \o f \notin local_files

(***************************************************************************)
(* Further properties of the generation pipeline (checked under SpecGen).  *)
(***************************************************************************)
\* the current entry's files, on disk and in the bucket
CurrentKey == translation_data[entry].key

WavIsLocal == PathJoin(WavDir, WavFilename(CurrentKey)) \in local_files

OggIsLocal == PathJoin(OggDir, OggFilename(CurrentKey)) \in local_files

WavIsRemote == CheckedBucketPath(VoiceName, "WAV", WavFilename(CurrentKey)) \in bucket_files

OggIsRemote == CheckedBucketPath(VoiceName, "OGG", OggFilename(CurrentKey)) \in bucket_files

C20_WavSkipIffExists ==
    [][(gpc = "wav" /\ gpc' # "idle")
           => LET skip == skip_existing
                              /\ (WavIsLocal \/ (bucket_manager /\ WavIsRemote))
              IN  /\ "make_wav" \in entry_calls' <=> ~skip
                  /\ skip => stats'.wav_skipped = stats.wav_skipped + 1
      ]_vars

\* C20 amended: make_wav is called for an entry exactly when not
\* (skip_existing and (the WAV is on disk, or a bucket manager is passed and
\* the existence check found the WAV in the bucket, which a check that
\* raises does not)); otherwise the entry is counted as skipped and make_wav
\* is not called; make_wav is called at most once for an entry.
C20_WavSkipIffFound ==
    /\ [](gpc = "wav" => "make_wav" \notin entry_calls)
    /\ [][/\ (gpc = "wav" /\ gpc' # "idle")
              => LET found == /\ bucket_manager
                              /\ WavIsRemote
                              /\ "wav_check_lost" \notin entry_calls
                     skip == skip_existing /\ (WavIsLocal \/ found)
                 IN  /\ "make_wav" \in entry_calls' <=> ~skip
                     /\ skip => /\ stats'.wav_skipped = stats.wav_skipped + 1
                                /\ stats'.wav_made = stats.wav_made
                                /\ stats'.wav_failed = stats.wav_failed
                                /\ local_files' = local_files
          /\ (gpc = "ogg" /\ gpc' # "idle")
              => ("make_wav" \in entry_calls' <=> "make_wav" \in entry_calls)
         ]_vars

\* a WAV that is in the bucket only was skipped
C20_Witness ==
    /\ gpc = "ogg"
    /\ skip_existing
    /\ bucket_manager
    /\ WavIsRemote
    /\ ~WavIsLocal
    /\ "make_wav" \notin entry_calls
    /\ stats.wav_skipped = 1

(***************************************************************************)
(* main.py: the run, from the start-up tests to the final summary.         *)
(***************************************************************************)
\* what the steps before the matching may find: lines 143-172
StartupCases ==
    {"ok", "no_dependencies", "no_voices_fetched", "no_reference_file", "no_preprocessing"}

MainVoiceA == [name |-> Code_afZA \o <<"-", "Neural2", "-", "A">>,
               language_codes |-> <<Code_afZA>>, ssml_gender |-> "FEMALE"]

MainVoiceE == [name |-> Code_enUS \o <<"-", "Chirp", "-", "HD", "-", "E">>,
               language_codes |-> <<Code_enUS, Code_afZA>>, ssml_gender |-> "FEMALE"]

MainVoiceF == [name |-> Code_afr \o <<"-", "WaveNet", "-", "F">>,
               language_codes |-> <<Code_afr>>, ssml_gender |-> "FEMALE"]

\* the catalogs of the runs
MainCatalogs ==
    { <<>>, <<MainVoiceA>>, <<MainVoiceA, MainVoiceE>>, <<MainVoiceA, MainVoiceF>> }

\* the listings of the Translations directory
MainListings ==
    { <<InGame_af_za \o ProcessedSuffix>>,
      <<InGame_af_za \o ProcessedSuffix, InGame_en_us \o ProcessedSuffix>>,
      <<InGame_af_na \o ProcessedSuffix, InGame_af_za \o ProcessedSuffix>> }

\* the processed translations: af_na is a file load_json finds empty
MainTranslations ==
    (InGame_af_za :> <<[key |-> "item.a", text |-> <<" ", "hi">>],
                       [key |-> "item.b", text |-> <<" ", " ">>]>>)
        @@ (InGame_en_us :> <<[key |-> "item.a", text |-> <<" ", "hi">>]>>)
        @@ (InGame_af_na :> <<>>)

\* what the bucket holds before the run
MainBucketCases ==
    { {},
      {CheckedBucketPath(MainVoiceA.name, "WAV", WavFilename("item.a")),
       CheckedBucketPath(MainVoiceA.name, "OGG", OggFilename("item.a"))} }

\* audio directories left in the working directory by an earlier run
MainLocalCases ==
    { [dirs |-> {}, files |-> {}],
      [dirs |-> {OggDirOf(MainVoiceA.name)},
       files |-> {PathJoin(OggDirOf(MainVoiceA.name), OggFilename("item.a"))}],
      [dirs |-> {OggDirOf(MainVoiceA.name)},
       files |-> {PathJoin(OggDirOf(MainVoiceA.name), OggFilename("item.a")),
                  PathJoin(OggDirOf(MainVoiceA.name), OggFilename("item.b"))}] }

MainInit ==
    /\ ArchOff
    /\ google_voices \in MainCatalogs
    /\ processed_dir \in MainListings
    /\ \/ /\ startup = "ok"
          /\ html_table = GoodHtmlTable
          /\ bucket_files \in MainBucketCases
          /\ \E l \in MainLocalCases : local_dirs = l.dirs /\ local_files = l.files
       \/ /\ startup = "ok"
          /\ html_table \in BadHtmlTables
          /\ bucket_files = {}
          /\ \E l \in MainLocalCases : local_dirs = l.dirs /\ local_files = l.files
       \/ /\ startup \in StartupCases \ {"ok"}
          /\ html_table = GoodHtmlTable
          /\ bucket_files = {}
          /\ local_dirs = {}
          /\ local_files = {}
    /\ store = NoAudioStore
    /\ used_initial = {}
    /\ used_languages = {}
    /\ language_mapping = <<>>
    /\ translation_files = <<>>
    /\ next_file = 1
    /\ language_voice_mapping = <<>>
    /\ match_trace = <<>>
    /\ mpc = "start"
    /\ translation_data = <<>>
    /\ voice_info = [in_game_code |-> <<>>, voices |-> <<>>]
    /\ skip_existing = TRUE
    /\ bucket_manager = FALSE
    /\ stats = ZeroStats
    /\ returned = "nothing"
    /\ entry = 1
    /\ wav_exists_in_bucket = FALSE
    /\ ogg_exists_in_bucket = FALSE
    /\ entry_calls = {}
    /\ check_lost = FALSE
    /\ previous = NoPrevious
    /\ gpc = "off"
    /\ translations = MainTranslations
    /\ main_pc = "start"
    /\ exit_code = -1
    /\ language_index = 1
    /\ overall_stats = ZeroTotals
    /\ processed_languages = 0
    /\ failed_languages = 0
    /\ language_stats = <<>>
    /\ main_calls = {}

\* the generation variables main leaves alone between two languages
GenLocalsUnchanged ==
    UNCHANGED <<skip_existing, wav_exists_in_bucket, ogg_exists_in_bucket,
                check_lost, previous>>

\* lines 136-172: version, logging, dependencies, voices, reference file and
\* preprocessing; each missing piece ends the run with 1
MainStart ==
    /\ main_pc = "start"
    /\ IF startup = "ok"
       THEN main_pc' = "match" /\ exit_code' = exit_code
       ELSE main_pc' = "done" /\ exit_code' = 1
    /\ UNCHANGED <<startup, translations, language_index, overall_stats,
                   processed_languages, failed_languages, language_stats, main_calls>>
    /\ UNCHANGED matchVars
    /\ UNCHANGED genVars
    /\ UNCHANGED archVars

\* lines 181-185: match_languages_to_voices
MainMatch ==
    /\ main_pc = "match"
    /\ MatchNext

\* lines 187-214: no match ends the run with 1; otherwise the bucket
\* manager is set up, and a failure to do so ends the run with 1
MainAfterMatch ==
    /\ main_pc = "match"
    /\ mpc = "done"
    /\ IF language_voice_mapping = <<>>
       THEN /\ main_pc' = "done"
            /\ exit_code' = 1
            /\ UNCHANGED bucket_manager
       ELSE \E connected \in BOOLEAN :
                IF connected
                THEN /\ bucket_manager' = TRUE
                     /\ main_pc' = "bucket"
                     /\ UNCHANGED exit_code
                ELSE /\ main_pc' = "done"
                     /\ exit_code' = 1
                     /\ UNCHANGED bucket_manager
    /\ UNCHANGED <<startup, translations, language_index, overall_stats,
                   processed_languages, failed_languages, language_stats, main_calls>>
    /\ UNCHANGED <<translation_data, voice_info, local_dirs, local_files, bucket_files,
                   stats, returned, entry, entry_calls, gpc>>
    /\ GenLocalsUnchanged
    /\ UNCHANGED matchVars
    /\ UNCHANGED archVars

\* the object transfer_existing_audio_to_bucket uploads a local file to:
\* bucket_prefix + file, with bucket_prefix the directory name
ExistingBucketPath(f) == <<"AudioProject-Female", "/">> \o f

\* the audio directories of the working directory: names ending in -WAV
\* or -OGG
AudioDirs ==
    {d \in local_dirs : EndsWith(d, <<"-", "WAV">>) \/ EndsWith(d, <<"-", "OGG">>)}

\* the .wav and .ogg files in them
AudioFilesIn(directories) ==
    {f \in local_files :
         /\ DirName(f) \in directories
         /\ EndsWith(f, <<".wav">>) \/ EndsWith(f, <<".ogg">>)}

\* lines 216-232: transfer_existing_audio_to_bucket uploads the audio files
\* of every audio directory, each upload succeeding or failing; when it
\* answers True, cleanup_local_directories removes the directories, each
\* removal succeeding or failing
MainTransferExisting ==
    /\ main_pc = "bucket"
    /\ \E uploaded \in SUBSET AudioFilesIn(AudioDirs) :
           LET failed_count == Cardinality(AudioFilesIn(AudioDirs) \ uploaded)
               transferred_count == Cardinality(uploaded)
               transferred == transferred_count > 0 \/ failed_count = 0
           IN  /\ bucket_files' =
                      bucket_files \cup {ExistingBucketPath(f) : f \in uploaded}
               /\ IF transferred
                  THEN \E deleted \in SUBSET AudioDirs :
                           /\ local_dirs' = local_dirs \ deleted
                           /\ local_files' = {f \in local_files : DirName(f) \notin deleted}
                           /\ main_calls' =
                                  main_calls \cup {"transfer_existing", "cleanup"}
                  ELSE /\ UNCHANGED <<local_dirs, local_files>>
                       /\ main_calls' = main_calls \cup {"transfer_existing"}
    /\ main_pc' = "loop"
    /\ UNCHANGED <<startup, translations, exit_code, language_index, overall_stats,
                   processed_languages, failed_languages, language_stats>>
    /\ UNCHANGED <<translation_data, voice_info, bucket_manager, stats, returned,
                   entry, entry_calls, gpc>>
    /\ GenLocalsUnchanged
    /\ UNCHANGED matchVars
    /\ UNCHANGED archVars

\* the outcomes of the two os.makedirs calls of create_audio_directories:
\* both succeed, the first raises, the second raises
MakedirsOutcomes == {"created", "wav_dir_raises", "ogg_dir_raises"}

\* lines 250-261: the next language; create_audio_directories answers
\* (None, None) for a language without voice, which counts the language as
\* failed; an exception of os.makedirs is caught by main's handler, which
\* ends the run with 1 (lines 340-344)
MainLanguageBegin ==
    /\ main_pc = "loop"
    /\ language_index <= Len(language_voice_mapping)
    /\ LET info == language_voice_mapping[language_index]
       IN  IF info.voices = <<>>
           THEN /\ failed_languages' = failed_languages + 1
                /\ language_index' = language_index + 1
                /\ language_stats' =
                       Append(language_stats,
                              [in_game_code |-> info.in_game_code, returned |-> "no_call",
                               stats |-> ZeroStats])
                /\ UNCHANGED <<main_pc, exit_code, main_calls, local_dirs,
                               translation_data, voice_info, gpc>>
           ELSE \E outcome \in MakedirsOutcomes :
                    /\ main_calls' = main_calls \cup {"create_audio_directories"}
                    /\ local_dirs' =
                           local_dirs
                               \cup (IF outcome = "wav_dir_raises"
                                     THEN {}
                                     ELSE {WavDirOf(info.voices[1].name)})
                               \cup (IF outcome = "created"
                                     THEN {OggDirOf(info.voices[1].name)}
                                     ELSE {})
                    /\ IF outcome = "created"
                       THEN /\ translation_data' = translations[info.in_game_code]
                            /\ voice_info' = info
                            /\ gpc' = "idle"
                            /\ main_pc' = "generate"
                            /\ UNCHANGED exit_code
                       ELSE /\ main_pc' = "done"
                            /\ exit_code' = 1
                            /\ UNCHANGED <<translation_data, voice_info, gpc>>
                    /\ UNCHANGED <<failed_languages, language_index, language_stats>>
    /\ UNCHANGED <<startup, translations, overall_stats, processed_languages>>
    /\ UNCHANGED <<bucket_manager, local_files, bucket_files, stats, returned, entry,
                   entry_calls>>
    /\ GenLocalsUnchanged
    /\ UNCHANGED matchVars
    /\ UNCHANGED archVars

\* lines 265-272: the call of generate_audio_for_language
MainGenerateBegin ==
    /\ main_pc = "generate"
    /\ gpc = "idle"
    /\ GenerateBegin

MainGenerateStep ==
    /\ main_pc = "generate"
    /\ \/ EntryBegin
       \/ WavStep
       \/ OggStep
       \/ GenerateReturn

\* lines 274-303: with counters the language is counted as processed, the
\* four totals grow and the files are transferred; without, the language is
\* counted as failed
MainLanguageEnd ==
    /\ main_pc = "generate"
    /\ gpc = "returned"
    /\ language_stats' =
           Append(language_stats,
                  [in_game_code |-> voice_info.in_game_code, returned |-> returned,
                   stats |-> stats])
    /\ IF returned = "stats"
       THEN /\ processed_languages' = processed_languages + 1
            /\ overall_stats' =
                   [total_wav_made |-> overall_stats.total_wav_made + stats.wav_made,
                    total_wav_skipped |->
                        overall_stats.total_wav_skipped + stats.wav_skipped,
                    total_ogg_made |-> overall_stats.total_ogg_made + stats.ogg_made,
                    total_ogg_skipped |->
                        overall_stats.total_ogg_skipped + stats.ogg_skipped]
            /\ TransferEffect
            /\ main_calls' = main_calls \cup {"transfer_generated"}
            /\ UNCHANGED failed_languages
       ELSE /\ failed_languages' = failed_languages + 1
            /\ UNCHANGED <<processed_languages, overall_stats, main_calls,
                           local_dirs, local_files, bucket_files>>
    /\ language_index' = language_index + 1
    /\ main_pc' = "loop"
    /\ gpc' = "off"
    /\ stats' = ZeroStats
    /\ returned' = "nothing"
    /\ entry' = 1
    /\ entry_calls' = {}
    /\ UNCHANGED <<startup, translations, exit_code>>
    /\ UNCHANGED <<translation_data, voice_info, bucket_manager>>
    /\ GenLocalsUnchanged
    /\ UNCHANGED matchVars
    /\ UNCHANGED archVars

\* lines 305-334: the loop is over, the summary is printed, main returns 0
MainFinish ==
    /\ main_pc = "loop"
    /\ language_index > Len(language_voice_mapping)
    /\ main_pc' = "done"
    /\ exit_code' = 0
    /\ UNCHANGED <<startup, translations, language_index, overall_stats,
                   processed_languages, failed_languages, language_stats, main_calls>>
    /\ UNCHANGED matchVars
    /\ UNCHANGED genVars
    /\ UNCHANGED archVars

MainNext ==
    \/ MainStart
    \/ MainMatch
    \/ MainAfterMatch
    \/ MainTransferExisting
    \/ MainLanguageBegin
    \/ MainGenerateBegin
    \/ MainGenerateStep
    \/ MainLanguageEnd
    \/ MainFinish

SpecMain == MainInit /\ [][MainNext]_vars

(***************************************************************************)
(* Properties of the run.                                                  *)
(***************************************************************************)
PerLanguageWorkBegun == "create_audio_directories" \in main_calls

\* C11: once the work on the languages has begun, a failure of one language
\* (no counters, directory creation, upload) does not stop the run: main
\* goes through every matched language and returns 0.
C11_LanguageFailureDoesNotStopRun ==
    (main_pc = "done" /\ PerLanguageWorkBegun)
        => /\ exit_code = 0
           /\ language_index > Len(language_voice_mapping)

\* C18: a reference table without row container makes the parse fail, the
\* matching yield nothing and main return 1, and nothing is synthesised,
\* transcoded, uploaded or removed on the way.
C18_ParseFailureIsFatal ==
    /\ [](html_table \in BadHtmlTables
            => /\ parse_minecraft_language_table(html_table).failed
               /\ mpc = "done" => language_voice_mapping = <<>>
               /\ main_pc \in {"start", "match", "done"}
               /\ main_pc = "done" => exit_code = 1
               /\ main_calls = {}
               /\ entry_calls = {}
               /\ gpc = "off"
               /\ ~bucket_manager)
    /\ [][(html_table \in BadHtmlTables)
              => (UNCHANGED <<local_dirs, local_files, bucket_files, stats>>)]_vars

C18_Witness ==
    /\ html_table \in BadHtmlTables
    /\ google_voices # <<>>
    /\ local_dirs # {}
    /\ main_pc = "done"
    /\ exit_code = 1

\* the counters of the languages counted as processed, added up
RECURSIVE SumOfStats(_, _)
SumOfStats(per_language, field) ==
    IF per_language = <<>>
    THEN 0
    ELSE LET last == per_language[Len(per_language)]
         IN  SumOfStats(SubSeq(per_language, 1, Len(per_language) - 1), field)
                 + (IF last.returned = "stats" THEN last.stats[field] ELSE 0)

\* the run total of a counter: what overall_stats holds for it, nothing
\* when overall_stats has no such field
TotalField ==
    [wav_made |-> "total_wav_made", wav_skipped |-> "total_wav_skipped",
     wav_failed |-> "total_wav_failed", ogg_made |-> "total_ogg_made",
     ogg_skipped |-> "total_ogg_skipped", ogg_failed |-> "total_ogg_failed"]

RunTotal(field) ==
    IF TotalField[field] \in DOMAIN overall_stats
    THEN overall_stats[TotalField[field]]
    ELSE 0

\* C19: at the final summary the run totals are the sums of the counters of
\* the processed languages, the failures (wav_failed, ogg_failed) included.
C19_FailuresInRunTotals ==
    (main_pc = "done" /\ exit_code = 0)
        => \A field \in DOMAIN TotalField :
               RunTotal(field) = SumOfStats(language_stats, field)

(***************************************************************************)
(* Properties of the OGG step and of the counters.                         *)
(***************************************************************************)
OggStepTaken == gpc = "ogg" /\ gpc' = "entry"

OggSkippedNow == stats'.ogg_skipped = stats.ogg_skipped + 1

\* C21: wav_to_ogg is called for an entry only when the WAV of the entry is
\* on disk and the OGG is not skipped; an OGG that is not skipped and has no
\* WAV on disk is counted in ogg_failed without a call of wav_to_ogg.
C21_TranscodeNeedsLocalWav ==
    [][OggStepTaken
           => /\ "wav_to_ogg" \in entry_calls' => (WavIsLocal /\ ~OggSkippedNow)
              /\ (~OggSkippedNow /\ ~WavIsLocal)
                     => /\ stats'.ogg_failed = stats.ogg_failed + 1
                        /\ stats'.ogg_made = stats.ogg_made
                        /\ "wav_to_ogg" \notin entry_calls'
                        /\ local_files' = local_files
      ]_vars

\* an entry whose WAV was skipped for the bucket's copy got its OGG counted
\* as failed, wav_to_ogg not called
C21_Witness ==
    /\ gpc = "entry"
    /\ entry > 1
    /\ stats.wav_skipped = 1
    /\ stats.wav_failed = 0
    /\ stats.ogg_failed = 1
    /\ "wav_to_ogg" \notin entry_calls
    /\ "make_wav" \notin entry_calls

(***************************************************************************)
(* Further properties of match_languages_to_voices.                        *)
(***************************************************************************)
MatchStepTaken == mpc = "loop" /\ next_file' = next_file + 1

\* the record of find_matching_google_language the step appends
FoundNow == match_trace'[Len(match_trace) + 1]

\* C22: a translation file whose catalog code is in the used-languages set
\* is skipped, with or without an audio directory of that code: no voice
\* selection, no new entry of the mapping, the set unchanged.
C22_ClaimedCodeSkipped ==
    [][(MatchStepTaken /\ FoundNow.result \in used_languages)
           => /\ match_trace' = Append(match_trace, FoundNow)
              /\ FoundNow.op = "find_matching"
              /\ language_voice_mapping' = language_voice_mapping
              /\ used_languages' = used_languages
      ]_vars

\* a code claimed by an earlier file of the run was skipped for a later
\* file; `with_directory` says whether an audio directory of the code exists
ClaimedInRunSkipped(with_directory) ==
    /\ mpc = "done"
    /\ \E j \in TraceIndices :
           /\ match_trace[j].op = "find_matching"
           /\ match_trace[j].result \notin used_initial
           /\ check_existing_audio_directories(match_trace[j].result, store)
                  = with_directory
           /\ \E k \in ResultIndices :
                  /\ language_voice_mapping[k].google_language_code
                         = match_trace[j].result
                  /\ language_voice_mapping[k].in_game_code # match_trace[j].code

C22_Witness == ClaimedInRunSkipped(TRUE)

(***************************************************************************)
(* convert_language_code called on its own.                                *)
(***************************************************************************)
\* the tokens of the codes: letters in both cases, the separator, a hyphen
CodeTokens == {"af", "ZA", "EN", "us", "_", "-"}

ConvertInputs ==
    UNION {[1..n -> CodeTokens] : n \in 0..MaxCodeLen}

ConvertInit ==
    /\ GenOff
    /\ RestOff
    /\ google_voices = <<>>
    /\ html_table = GoodHtmlTable
    /\ processed_dir = <<>>
    /\ store = NoAudioStore
    /\ used_languages = {}
    /\ used_initial = {}
    /\ language_mapping = <<>>
    /\ translation_files = <<>>
    /\ next_file = 1
    /\ language_voice_mapping = <<>>
    /\ match_trace = <<>>
    /\ mpc = "convert"

\* one call convert_language_code(in_game_code)
ConvertCall ==
    /\ mpc = "convert"
    /\ \E in_game_code \in ConvertInputs :
           match_trace' =
               Append(match_trace,
                      [op |-> "convert", code |-> in_game_code, iso |-> <<>>,
                       result |-> convert_language_code(in_game_code)])
    /\ mpc' = "converted"
    /\ UNCHANGED <<google_voices, html_table, processed_dir, store, used_languages,
                   used_initial, language_mapping, translation_files, next_file,
                   language_voice_mapping>>
    /\ UNCHANGED genVars
    /\ UNCHANGED restVars

ConvertNext == ConvertCall

SpecConvert == ConvertInit /\ [][ConvertNext]_vars

\* the positions of the separator in a code
SeparatorsOf(code) == {i \in 1..Len(code) : code[i] = "_"}

\* C23: a code with exactly one "_" becomes lowercase(first part), "-",
\* uppercase(second part); every other code comes back unchanged; converting
\* the result again changes nothing.
C23_ConvertLanguageCode ==
    \A k \in TraceIndices :
        match_trace[k].op = "convert"
            => LET code == match_trace[k].code
                   result == match_trace[k].result
               IN  /\ Cardinality(SeparatorsOf(code)) = 1
                          => LET at == CHOOSE i \in SeparatorsOf(code) : TRUE
                             IN  result = Lower(SubSeq(code, 1, at - 1)) \o <<"-">>
                                              \o Upper(SubSeq(code, at + 1, Len(code)))
                   /\ Cardinality(SeparatorsOf(code)) # 1 => result = code
                   /\ convert_language_code(result) = result

\* a code in mixed case with one separator was converted
C23_Witness ==
    \E k \in TraceIndices :
        /\ match_trace[k].op = "convert"
        /\ match_trace[k].code = <<"EN", "_", "us">>
        /\ match_trace[k].result = <<"en", "-", "US">>

\* the codes a set of translation files can claim: what the files resolve
\* to, as far as the catalog has a female voice for it; nothing in it
\* depends on an order of the files
ClaimableCodes(files) ==
    {code \in {find_matching_google_language(
                   f.in_game_code, DictGet(language_mapping, f.in_game_code, <<>>),
                   google_voices) : f \in files} :
         /\ ~Falsy(code)
         /\ select_voices_for_language(code, google_voices) # <<>>}

ResultCodes ==
    {language_voice_mapping[k].google_language_code : k \in ResultIndices}

\* C24: started with an empty used-languages set, the codes of the returned
\* mapping are the claimable codes of the set of translation files, whatever
\* the order the directory lists them in.
C24_CodesIndependentOfOrder ==
    (mpc = "done" /\ used_initial = {} /\ language_mapping # <<>>)
        => ResultCodes = ClaimableCodes(Range(translation_files))

\* two files share a code, and the one listed first, af_na, has claimed it
C24_Witness ==
    /\ mpc = "done"
    /\ used_initial = {}
    /\ Len(translation_files) = 2
    /\ translation_files[1].in_game_code = InGame_af_na
    /\ Len(language_voice_mapping) = 1
    /\ language_voice_mapping[1].in_game_code = InGame_af_na
    /\ ClaimableCodes({translation_files[2]}) = ResultCodes

\* C25: the used-languages set only grows, a code enters it only in the step
\* that appends the entry of that code to the mapping, and at return the set
\* is what the caller passed plus the codes of the returned mapping; a code
\* without female voice is not in it.
C25_UsedLanguagesTrackResults ==
    /\ [](mpc = "done" => used_languages = used_initial \cup ResultCodes)
    /\ [](\A k \in TraceIndices :
              (match_trace[k].op = "select_voices" /\ match_trace[k].result = <<>>)
                  => match_trace[k].code \notin used_languages \ used_initial)
    /\ [][/\ used_languages \subseteq used_languages'
          /\ \A code \in used_languages' \ used_languages :
                 /\ Len(language_voice_mapping') = Len(language_voice_mapping) + 1
                 /\ language_voice_mapping'[Len(language_voice_mapping')]
                        .google_language_code = code
      ]_vars

\* one language was claimed, another one had a catalog match without a
\* female voice
C25_Witness ==
    /\ mpc = "done"
    /\ language_voice_mapping # <<>>
    /\ \E k \in TraceIndices :
           /\ match_trace[k].op = "select_voices"
           /\ match_trace[k].result = <<>>

\* C26: no two entries of the returned mapping select the same voice name,
\* so no two translation files of a run get the same pair of audio
\* directories.
C26_DistinctVoiceNames ==
    \A i, j \in ResultIndices :
        i # j => /\ language_voice_mapping[i].voices[1].name
                        # language_voice_mapping[j].voices[1].name
                 /\ WavDirOf(language_voice_mapping[i].voices[1].name)
                        # WavDirOf(language_voice_mapping[j].voices[1].name)
                 /\ OggDirOf(language_voice_mapping[i].voices[1].name)
                        # OggDirOf(language_voice_mapping[j].voices[1].name)

(***************************************************************************)
(* Properties of the transfers to the bucket.                              *)
(***************************************************************************)
\* the step of transfer_generated_files_to_bucket under SpecGen
TransferGeneratedTaken == gpc = "returned" /\ gpc' = "idle"

\* C27: after transfer_generated_files_to_bucket every .wav and .ogg file of
\* the two directories is in the bucket or still on disk: a file is removed
\* from disk only when its upload has succeeded.
C27_NoLossOnUpload ==
    [][TransferGeneratedTaken
           => /\ \A f \in FilesIn(WavDir, ".wav") :
                     \/ f \in local_files'
                     \/ UploadBucketPath(VoiceName, "WAV", BaseName(f, WavDir))
                            \in bucket_files'
              /\ \A f \in FilesIn(OggDir, ".ogg") :
                     \/ f \in local_files'
                     \/ UploadBucketPath(VoiceName, "OGG", BaseName(f, OggDir))
                            \in bucket_files'
      ]_vars

\* the pre-generation step of main
TransferExistingTaken == main_pc = "bucket" /\ main_pc' = "loop"

\* C28: cleanup_local_directories runs only after
\* transfer_existing_audio_to_bucket has answered True, and an audio file that
\* lay in a -WAV or -OGG directory is removed only when it has been uploaded:
\* after the step it is on disk or in the bucket.
C28_CleanupAfterUpload ==
    [][TransferExistingTaken
           => /\ "cleanup" \in main_calls' => "transfer_existing" \in main_calls'
              /\ "cleanup" \notin main_calls'
                     => (local_dirs' = local_dirs /\ local_files' = local_files)
              /\ \A f \in AudioFilesIn(AudioDirs) :
                     f \in local_files' \/ ExistingBucketPath(f) \in bucket_files'
      ]_vars

\* the object names of a voice agree: what the two transfers upload to is
\* what the existence check asks for
SamePaths(voice_name) ==
    \A key \in Range(KeyNames) :
        /\ UploadBucketPath(voice_name, "WAV", WavFilename(key))
               = CheckedBucketPath(voice_name, "WAV", WavFilename(key))
        /\ UploadBucketPath(voice_name, "OGG", OggFilename(key))
               = CheckedBucketPath(voice_name, "OGG", OggFilename(key))
        /\ ExistingBucketPath(PathJoin(WavDirOf(voice_name), WavFilename(key)))
               = CheckedBucketPath(voice_name, "WAV", WavFilename(key))
        /\ ExistingBucketPath(PathJoin(OggDirOf(voice_name), OggFilename(key)))
               = CheckedBucketPath(voice_name, "OGG", OggFilename(key))

\* the current entry is looked up in the bucket
BucketAsked == bucket_manager /\ skip_existing

\* C29 as stated: the object names agree, so a file uploaded by an earlier
\* run is reported as existing and skipped by the next run with the same
\* voice.
C29_UploadedIsSkipped ==
    /\ [](SamePaths(VoiceName))
    /\ []((gpc \in {"wav", "ogg"} /\ BucketAsked)
              => /\ WavIsRemote => wav_exists_in_bucket
                 /\ OggIsRemote => ogg_exists_in_bucket)
    /\ [][/\ (gpc = "wav" /\ gpc' # "idle" /\ BucketAsked /\ WavIsRemote)
              => /\ stats'.wav_skipped = stats.wav_skipped + 1
                 /\ "make_wav" \notin entry_calls'
          /\ (gpc = "ogg" /\ gpc' # "idle" /\ BucketAsked /\ OggIsRemote)
              => /\ stats'.ogg_skipped = stats.ogg_skipped + 1
                 /\ "wav_to_ogg" \notin entry_calls'
         ]_vars

\* C29 amended: the object names agree, so a file uploaded by an earlier run
\* is reported as existing by every existence check that does not raise, and
\* is then skipped by the next run with the same voice.
C29_UploadedIsSkippedWhenChecked ==
    /\ [](SamePaths(VoiceName))
    /\ []((gpc \in {"wav", "ogg"} /\ BucketAsked)
              => /\ (WavIsRemote /\ "wav_check_lost" \notin entry_calls)
                        => wav_exists_in_bucket
                 /\ (OggIsRemote /\ "ogg_check_lost" \notin entry_calls)
                        => ogg_exists_in_bucket)
    /\ [][/\ (gpc = "wav" /\ gpc' # "idle" /\ BucketAsked /\ WavIsRemote
                  /\ "wav_check_lost" \notin entry_calls)
              => /\ stats'.wav_skipped = stats.wav_skipped + 1
                 /\ "make_wav" \notin entry_calls'
          /\ (gpc = "ogg" /\ gpc' # "idle" /\ BucketAsked /\ OggIsRemote
                  /\ "ogg_check_lost" \notin entry_calls)
              => /\ stats'.ogg_skipped = stats.ogg_skipped + 1
                 /\ "wav_to_ogg" \notin entry_calls'
         ]_vars

\* both files of an entry, uploaded by the run before and gone from the
\* disk, were skipped
C29_Witness ==
    /\ gpc = "entry"
    /\ entry > 1
    /\ BucketAsked
    /\ local_files = {}
    /\ CheckedBucketPath(VoiceName, "WAV", WavFilename(translation_data[entry - 1].key))
           \in bucket_files
    /\ CheckedBucketPath(VoiceName, "OGG", OggFilename(translation_data[entry - 1].key))
           \in bucket_files
    /\ stats.wav_skipped = 1
    /\ stats.ogg_skipped = 1
    /\ entry_calls = {"exists_wav", "exists_ogg"}

CounterFields == DOMAIN ZeroStats

WavCounted(counters) == counters.wav_made + counters.wav_skipped + counters.wav_failed

OggCounted(counters) == counters.ogg_made + counters.ogg_skipped + counters.ogg_failed

\* a step of the running call of generate_audio_for_language
InsideCall == gpc \in {"entry", "wav", "ogg"} /\ gpc' # "idle"

\* C30: between two entries ogg_made + ogg_skipped + ogg_failed equals
\* wav_made + wav_skipped; no counter ever goes down during a call; the WAV
\* step of an entry raises exactly one WAV counter by one, its OGG step
\* exactly one OGG counter by one, and nothing else counts.
C30_OggCounterConservation ==
    /\ [](gpc \in {"entry", "returned"}
              => OggCounted(stats) = stats.wav_made + stats.wav_skipped)
    /\ [][InsideCall
              => /\ \A field \in CounterFields : stats'[field] >= stats[field]
                 /\ gpc = "entry" => stats' = stats
                 /\ gpc = "wav" => /\ WavCounted(stats') = WavCounted(stats) + 1
                                   /\ OggCounted(stats') = OggCounted(stats)
                 /\ gpc = "ogg" => /\ OggCounted(stats') = OggCounted(stats) + 1
                                   /\ WavCounted(stats') = WavCounted(stats)
                                   /\ gpc' = "entry"
                                   /\ entry' = entry + 1
         ]_vars

\* a call has returned with a failed WAV and a failed OGG
C30_Witness ==
    /\ gpc = "returned"
    /\ returned = "stats"
    /\ stats.wav_failed > 0
    /\ stats.ogg_failed > 0
    /\ OggCounted(stats) < WavCounted(stats)

====
